---- MODULE Spec2Model ----
(***************************************************************************)
(* A model of the SES email component (src/unnamed/part_001, the           *)
(* component's lib.ts): the message store, the batch scheduler, the        *)
(* dispatch worker, the completion reconciler and the event state machine. *)
(* Every mutation is one atomic action (a Convex mutation is a             *)
(* transaction); the dispatch action callSesAPIWithBatch is not atomic and *)
(* is split at each of its database and network calls.                     *)
(***************************************************************************)
EXTENDS Integers, Sequences, FiniteSets, TLC

(* ------------------------------ bounds --------------------------------- *)
\* How many messages are ever created.
MaxEmails == 2
\* The clock starts at StartMs and advances in steps of TickMs, MaxTicks
\* times at most.
StartMs == 1000
TickMs == 300
MaxTicks == 12
\* Messages are created during the first SendTicks ticks only, so that the
\* clock's bound leaves the time to dispatch them.
SendTicks == 3
\* options.retryAttempts of the one runtime configuration.
MaxAttempts == 2
\* take(BATCH_SIZE): 100 in the source (part_001:45), scaled down so that a
\* full batch and a short batch both occur with MaxEmails messages.
BATCH_SIZE == 2
\* How many audit rows, and how many callbacks, the inbound events leave.
MaxEvents == 2
\* The MessageIds a manual send stores are 1..MaxManualSesId.
MaxManualSesId == 1
\* The webhook path is explored with MaxEventEmails messages and EventTicks
\* ticks of the clock.
MaxEventEmails == 1
EventTicks == 1
\* take(BATCH_SIZE) of cleanupOldEmails (100 in the source, part_001:92) and
\* take(500) of cleanupAbandonedEmails, scaled down so that a full batch
\* occurs.
CLEANUP_BATCH_SIZE == 1
ABANDONED_BATCH_SIZE == 1
\* The store's operations are explored with MaxStoreEmails messages and
\* StoreTicks ticks of the clock.
MaxStoreEmails == 2
StoreTicks == 2
\* The SNS endpoint is explored with MaxSnsEmails messages.
MaxSnsEmails == 2
\* The batch scheduler is explored with MaxSchedEmails messages, created
\* during the first SchedSendTicks ticks.
MaxSchedEmails == 3
SchedSendTicks == 4
\* Completions next to cleanupAbandonedEmails are explored with
\* MaxReconcileEmails messages and ReconcileTicks ticks of the clock.
MaxReconcileEmails == 2
ReconcileTicks == 7
\* Event sequences of up to MaxEventSeq events of any type, and of up to
\* MaxStatusEventSeq events of the types that set a status, are applied to
\* a row.
MaxEventSeq == 2
MaxStatusEventSeq == 3
\* sendEmailManually next to sendEmail is explored with MaxManualEmails
\* messages and ManualTicks ticks of the clock.
MaxManualEmails == 2
ManualTicks == 5
\* The send path next to the webhook path is explored with MaxPipelineEmails
\* messages, created during the first PipelineSendTicks of PipelineTicks
\* ticks of the clock.
MaxPipelineEmails == 2
PipelineSendTicks == 1
PipelineTicks == 6

(* ------------------------- program constants --------------------------- *)
SEGMENT_MS == 125
BASE_BATCH_DELAY == 1000
EMAIL_POOL_SIZE == 4
\* Number.MAX_SAFE_INTEGER in the source; the model uses the largest integer
\* of the checker, which like the source's is above every Date.now().
FINALIZED_EPOCH == 2147483647
FIXED_WINDOW_DELAY == 100
\* sesApiRateLimiter: rate SES_RATE per fixed window of SES_ONE_CALL_EVERY_MS.
SES_ONE_CALL_EVERY_MS == 100
SES_RATE == 1
\* 7 days.
FINALIZED_EMAIL_RETENTION_MS == 604800000

VARIABLES
  now,            \* Date.now()
  emails,         \* table emails: id -> row
  nextId,         \* the next id the store assigns
  lastOptions,    \* table lastOptions: <<>> or <<options>>
  nextBatchRun,   \* table nextBatchRun: its number of rows
  scheduled,      \* ctx.scheduler: the pending makeBatch jobs
  emailPool,      \* the dispatch workpool: its units of work
  nextSesId,      \* the next MessageId the SES API returns
  sesCalled,      \* id -> number of SendEmail calls made for the message
  sesAccepted,    \* id -> number of SendEmail calls the API accepted
  deliveryEvents, \* table deliveryEvents
  callbackPool,   \* the callback workpool: the enqueued callbacks
  content,        \* table content: content id -> mimeType
  cleanupJobs,    \* ctx.scheduler: the pending cleanup runs
  snsResponse,    \* what handleSnsNotification last returned, or raised
  batchedIn       \* id -> number of batches enqueued with the message

\* What the component's functions read and write.
dbVars == <<now, emails, nextId, lastOptions, nextBatchRun, scheduled, emailPool,
            nextSesId, sesCalled, sesAccepted, deliveryEvents, callbackPool,
            content, cleanupJobs, batchedIn>>

vars == <<dbVars, snsResponse>>

NoError == ""
NoSesId == 0

Statuses == {"waiting", "queued", "cancelled", "sent", "delivered",
             "delivery_delayed", "bounced", "failed"}

(* ------------------------------ helpers -------------------------------- *)
getSegment(t) == t \div SEGMENT_MS

Ids == DOMAIN emails

\* ctx.db.patch(id, fields): the row with the given fields overwritten.
Patch(row, fields) ==
  [f \in DOMAIN row |-> IF f \in DOMAIN fields THEN fields[f] ELSE row[f]]

RECURSIVE Pow2(_)
Pow2(n) == IF n <= 0 THEN 1 ELSE 2 * Pow2(n - 1)

SeqToSet(s) == {s[i] : i \in 1..Len(s)}

RemoveAt(s, k) == [i \in 1..(Len(s) - 1) |-> IF i < k THEN s[i] ELSE s[i + 1]]

\* The runtime configurations a caller passes (vOptions): the retry policy
\* and whether an onEmailEvent callback is set.
OptionsChoices ==
  {[retryAttempts |-> MaxAttempts, initialBackoffMs |-> TickMs, onEmailEvent |-> cb] :
     cb \in BOOLEAN}

\* The content arguments of sendEmail, by which of them are given.
SendArgs ==
  {[html |-> TRUE,  text |-> FALSE, template |-> FALSE, subject |-> TRUE],
   [html |-> FALSE, text |-> FALSE, template |-> TRUE,  subject |-> FALSE],
   [html |-> TRUE,  text |-> FALSE, template |-> TRUE,  subject |-> TRUE],
   [html |-> FALSE, text |-> FALSE, template |-> FALSE, subject |-> TRUE],
   [html |-> FALSE, text |-> TRUE,  template |-> FALSE, subject |-> FALSE]}

\* The send path is explored with html messages, and the requests sendEmail
\* rejects.
HtmlSendArgs == {a \in SendArgs : ~a.template \/ a.html}

(* ------------------------------- Init ---------------------------------- *)
Init ==
  /\ now = StartMs
  /\ emails = <<>>
  /\ nextId = 1
  /\ lastOptions = <<>>
  /\ nextBatchRun = 0
  /\ scheduled = <<>>
  /\ emailPool = <<>>
  /\ nextSesId = 1
  /\ sesCalled = <<>>
  /\ sesAccepted = <<>>
  /\ deliveryEvents = <<>>
  /\ callbackPool = <<>>
  /\ content = <<>>
  /\ cleanupJobs = <<>>
  /\ snsResponse = [status |-> 0, body |-> ""]
  /\ batchedIn = <<>>

(* ------------------------------ the clock ------------------------------ *)
\* The clock is coarse: what is due (a scheduled job, a unit of work) runs
\* before the clock advances again, so a job runs less than TickMs late.
Due ==
  \/ \E k \in 1..Len(scheduled) : scheduled[k].runAt <= now
  \/ \E k \in 1..Len(emailPool) :
        emailPool[k].phase # "pending" \/ emailPool[k].runAt <= now
  \/ cleanupJobs # <<>>

Tick ==
  /\ now + TickMs <= StartMs + MaxTicks * TickMs
  /\ ~Due
  /\ now' = now + TickMs
  /\ UNCHANGED <<emails, nextId, lastOptions, nextBatchRun, scheduled, emailPool,
                 nextSesId, sesCalled, sesAccepted, deliveryEvents, callbackPool, content, cleanupJobs, snsResponse, batchedIn>>

\* A scheduleBatchRun that does not store the options.
StoreOptions_Skip(options) == lastOptions

(* ---------------------------- scheduleBatchRun ------------------------- *)
\* The lastOptions table after scheduleBatchRun stored the options
\* (isDeepEqual: replaced only when they differ, which leaves the same table).
StoreOptions(options) == <<options>>

\* A scheduleBatchRun that does not look for the marker.
ScheduleNeeded_Always == TRUE

\* A scheduleBatchRun that never schedules a job.
ScheduleNeeded_Never == FALSE

\* Whether scheduleBatchRun schedules a job: only without a marker row.
ScheduleNeeded == nextBatchRun = 0

\* A first pass anchored a base delay later than the time it runs at.
NewRunJob_LateAnchor == [reloop |-> FALSE,
                         segment |-> getSegment(now + 2 * BASE_BATCH_DELAY),
                         runAt |-> now + BASE_BATCH_DELAY]

NewRunJob == [reloop |-> FALSE,
              segment |-> getSegment(now + BASE_BATCH_DELAY),
              runAt |-> now + BASE_BATCH_DELAY]

(* ------------------------------- sendEmail ----------------------------- *)
\* A validation without the check for both html/text and template.
sendEmailError_NoBothCheck(args) ==
  LET hasContent == args.html \/ args.text
      hasTemplate == args.template
  IN  IF ~hasContent /\ ~hasTemplate
        THEN "Either html/text or template must be provided"
      ELSE IF ~hasTemplate /\ ~args.subject
        THEN "Subject is required when not using a template"
      ELSE IF nextBatchRun > 1
        THEN "unique() query returned more than one result"
      ELSE NoError

sendEmailError(args) ==
  LET hasContent == args.html \/ args.text
      hasTemplate == args.template
  IN  IF ~hasContent /\ ~hasTemplate
        THEN "Either html/text or template must be provided"
      ELSE IF hasContent /\ hasTemplate
        THEN "Cannot provide both html/text and template"
      ELSE IF ~hasTemplate /\ ~args.subject
        THEN "Subject is required when not using a template"
      ELSE IF nextBatchRun > 1
        THEN "unique() query returned more than one result"
      ELSE NoError

NoContent == 0

NewEmail(segment, status) ==
  [creationTime |-> now, status |-> status, segment |-> segment,
   finalizedAt |-> FINALIZED_EPOCH, sesMessageId |-> NoSesId, errorMessage |-> NoError,
   bounced |-> FALSE, complained |-> FALSE, failed |-> FALSE,
   deliveryDelayed |-> FALSE, opened |-> FALSE, clicked |-> FALSE,
   html |-> NoContent, text |-> NoContent, template |-> FALSE]

Insert(tbl, id, row) == [i \in DOMAIN tbl \cup {id} |-> IF i = id THEN row ELSE tbl[i]]

\* The ids the store gives the content rows of message id.
HtmlContentId(id) == 2 * id - 1
TextContentId(id) == 2 * id

\* The content table after the inserts of the html and of the text given.
InsertContent(tbl, id, args) ==
  LET withHtml == IF args.html
                    THEN Insert(tbl, HtmlContentId(id), "text/html") ELSE tbl
  IN  IF args.text
        THEN Insert(withHtml, TextContentId(id), "text/plain") ELSE withHtml

\* The row sendEmail inserts.
SentEmailRow(id, args) ==
  Patch(NewEmail(getSegment(now), "waiting"),
        [html |-> IF args.html THEN HtmlContentId(id) ELSE NoContent,
         text |-> IF args.text THEN TextContentId(id) ELSE NoContent,
         template |-> args.template])

sendEmail(options, args) ==
  /\ IF sendEmailError(args) # NoError
       THEN UNCHANGED vars     \* it raises: the transaction writes nothing
       ELSE /\ content' = InsertContent(content, nextId, args)
            /\ emails' = Insert(emails, nextId, SentEmailRow(nextId, args))
            /\ sesCalled' = Insert(sesCalled, nextId, 0)
            /\ sesAccepted' = Insert(sesAccepted, nextId, 0)
            /\ batchedIn' = Insert(batchedIn, nextId, 0)
            /\ nextId' = nextId + 1
            /\ lastOptions' = StoreOptions(options)
            /\ IF ScheduleNeeded
                 THEN /\ scheduled' = Append(scheduled, NewRunJob)
                      /\ nextBatchRun' = nextBatchRun + 1
                 ELSE UNCHANGED <<scheduled, nextBatchRun>>
            /\ UNCHANGED <<now, emailPool, nextSesId, deliveryEvents, callbackPool,
                           cleanupJobs, snsResponse>>

(* ------------------------------ cancelEmail ---------------------------- *)
\* A cancelEmail that also takes a message already sent.
cancelEmailError_AllowSent(id) ==
  IF id \notin Ids THEN "Email not found"
  ELSE IF emails[id].status \notin {"waiting", "queued", "sent"}
    THEN "Email has already been sent"
  ELSE NoError

cancelEmailError(id) ==
  IF id \notin Ids THEN "Email not found"
  ELSE IF emails[id].status # "waiting" /\ emails[id].status # "queued"
    THEN "Email has already been sent"
  ELSE NoError

cancelEmail(id) ==
  /\ IF cancelEmailError(id) # NoError
       THEN UNCHANGED emails   \* it raises: the transaction writes nothing
       ELSE emails' = [emails EXCEPT ![id] =
                         Patch(@, [status |-> "cancelled", finalizedAt |-> now])]
  /\ UNCHANGED <<now, nextId, lastOptions, nextBatchRun, scheduled, emailPool,
                 nextSesId, sesCalled, sesAccepted, deliveryEvents, callbackPool, content, cleanupJobs, snsResponse, batchedIn>>

(* ------------------------------- makeBatch ----------------------------- *)
\* by_status_segment: the waiting messages with segment <= the bound.
WaitingUpTo(segmentBound) ==
  {id \in Ids : emails[id].status = "waiting" /\ emails[id].segment <= segmentBound}

\* The index orders by segment, then by creation (ids grow with creation).
IndexFirst(S) ==
  CHOOSE id \in S : \A o \in S :
     \/ emails[id].segment < emails[o].segment
     \/ emails[id].segment = emails[o].segment /\ id <= o

RECURSIVE Take(_, _)
Take(S, n) ==
  IF n = 0 \/ S = {} THEN <<>>
  ELSE LET f == IndexFirst(S) IN <<f>> \o Take(S \ {f}, n - 1)

\* A scan up to the anchor itself, without the two segments of lag.
SelectBatch_NoLag(segment) == Take(WaitingUpTo(segment), BATCH_SIZE)

\* We scan earlier than two segments ago.
SelectBatch(segment) == Take(WaitingUpTo(segment - 2), BATCH_SIZE)

\* The fixed window of the limiter an instant falls in.
getWindow(t) == t \div SES_ONE_CALL_EVERY_MS

\* getDelay: the limiter's retryAfter plus jitter, or 0.
Delays == {0, FIXED_WINDOW_DELAY + 50}

\* The unit of work emailPool.enqueueAction creates.
NewWork(ids, options, delay) ==
  [ids |-> ids, context |-> ids, maxAttempts |-> options.retryAttempts,
   initialBackoffMs |-> options.initialBackoffMs,
   runAt |-> now + delay, attempt |-> 0, startedAt |-> 0, phase |-> "pending",
   batch |-> <<>>, i |-> 1, okIds |-> <<>>, okSesIds |-> <<>>, failedIds |-> <<>>,
   failedErrors |-> <<>>]

\* A makeBatch that schedules nothing after it enqueued a batch.
ReloopJobs_None(segment) == <<>>

\* What makeBatch schedules after it enqueued a batch.
ReloopJobs(segment) == <<[reloop |-> TRUE, segment |-> segment, runAt |-> now]>>

\* A reschedule that trusts its argument and does not look for waiting
\* messages itself.
reschedule_NoRecheck(emailsLeftArg, rest) ==
  LET emailsLeft == emailsLeftArg
  IN  IF ~emailsLeft
        THEN IF nextBatchRun = 0
               THEN <<"No batch run found -- invariant", rest, nextBatchRun>>
             ELSE IF nextBatchRun > 1
               THEN <<"unique() query returned more than one result", rest, nextBatchRun>>
             ELSE <<NoError, rest, nextBatchRun - 1>>
        ELSE <<NoError, Append(rest, NewRunJob), nextBatchRun>>

\* reschedule(ctx, emailsLeft), given the jobs left in the scheduler.
\* The result is <<error, scheduled', nextBatchRun'>>.
reschedule(emailsLeftArg, rest) ==
  LET emailsLeft == emailsLeftArg \/ (\E id \in Ids : emails[id].status = "waiting")
  IN  IF ~emailsLeft
        THEN IF nextBatchRun = 0
               THEN <<"No batch run found -- invariant", rest, nextBatchRun>>
             ELSE IF nextBatchRun > 1
               THEN <<"unique() query returned more than one result", rest, nextBatchRun>>
             ELSE <<NoError, rest, nextBatchRun - 1>>
        ELSE <<NoError, Append(rest, NewRunJob), nextBatchRun>>

\* A makeBatch that takes every non-empty batch, also a short one on a
\* reloop.
ShortBatch_NoReloop(job, batch) == Len(batch) = 0

\* "If we have no emails, or we have a short batch on a reloop".
ShortBatch(job, batch) ==
  Len(batch) = 0 \/ (job.reloop /\ Len(batch) < BATCH_SIZE)

\* A makeBatch that does not mark the messages of the batch.
MarkQueued_Nothing(batch) == emails

\* "Mark the emails as queued."
MarkQueued(batch) ==
  [id \in Ids |->
     IF id \in SeqToSet(batch)
       THEN Patch(emails[id], [status |-> "queued"]) ELSE emails[id]]

\* The scheduler runs pending job k, a makeBatch, no earlier than its time.
makeBatch(k) ==
  /\ k \in 1..Len(scheduled)
  /\ now >= scheduled[k].runAt
  /\ LET job == scheduled[k]
         rest == RemoveAt(scheduled, k)
         batch == SelectBatch(job.segment)
     IN  IF lastOptions = <<>>
           THEN /\ scheduled' = rest     \* it raises; the job is spent
                /\ UNCHANGED <<emails, nextBatchRun, emailPool, batchedIn>>
         ELSE IF ShortBatch(job, batch)
           THEN LET r == reschedule(Len(batch) > 0, rest)
                IN  /\ scheduled' = IF r[1] = NoError THEN r[2] ELSE rest
                    /\ nextBatchRun' = IF r[1] = NoError THEN r[3] ELSE nextBatchRun
                    /\ UNCHANGED <<emails, emailPool, batchedIn>>
         ELSE \E delay \in Delays :
                /\ emails' = MarkQueued(batch)
                /\ emailPool' = Append(emailPool, NewWork(batch, lastOptions[1], delay))
                /\ batchedIn' = [id \in DOMAIN batchedIn |->
                                   IF id \in SeqToSet(batch)
                                     THEN batchedIn[id] + 1 ELSE batchedIn[id]]
                /\ scheduled' = rest \o ReloopJobs(job.segment)
                /\ UNCHANGED nextBatchRun
  /\ UNCHANGED <<now, nextId, lastOptions, nextSesId, sesCalled, sesAccepted,
                 deliveryEvents, callbackPool, content, cleanupJobs, snsResponse>>

(* ------------------------- callSesAPIWithBatch ------------------------- *)
\* A payload builder that does not filter by status.
QueuedOf_All(ids) == SelectSeq(ids, LAMBDA id : id \in Ids)

\* getEmailsByIds, then createSesBatchPayload's filter: the ids of the batch
\* that exist and are queued, in batch order.
QueuedOf(ids) ==
  SelectSeq(ids, LAMBDA id : id \in Ids /\ emails[id].status = "queued")

\* The pool starts an attempt of unit k: the action reads the batch.  With
\* nothing queued the action returns null and the attempt succeeds.
WorkStart(k) ==
  /\ k \in 1..Len(emailPool)
  /\ emailPool[k].phase = "pending"
  /\ now >= emailPool[k].runAt
  /\ Cardinality({j \in 1..Len(emailPool) : emailPool[j].phase = "running"})
       < EMAIL_POOL_SIZE
  /\ LET w == emailPool[k]
         batch == QueuedOf(w.ids)
     IN  emailPool' = [emailPool EXCEPT ![k] =
           Patch(w, [attempt |-> w.attempt + 1, startedAt |-> now,
                     batch |-> batch, i |-> 1,
                     okIds |-> <<>>, okSesIds |-> <<>>, failedIds |-> <<>>,
                     failedErrors |-> <<>>,
                     phase |-> IF batch = <<>> THEN "success" ELSE "running"])]
  /\ UNCHANGED <<now, emails, nextId, lastOptions, nextBatchRun, scheduled,
                 nextSesId, sesCalled, sesAccepted, deliveryEvents, callbackPool, content, cleanupJobs, snsResponse, batchedIn>>

\* What client.send gives for one message: a MessageId, a response without
\* one, an error with a permanent status code, or any other error.
SesOutcomes == {"accepted", "noMessageId", "permanent", "transient"}

\* The unit after its attempt raised: the pool retries it with backoff
\* initialBackoffMs * 2^(attempt-1) until maxAttempts attempts were made.
AfterThrow(w) ==
  IF w.attempt < w.maxAttempts
    THEN Patch(w, [phase |-> "pending",
                   runAt |-> now + w.initialBackoffMs * Pow2(w.attempt - 1)])
    ELSE Patch(w, [phase |-> "failed"])

\* One turn of the send loop of unit k: the SendEmail call for batch[i].
WorkSend(k, outcome) ==
  /\ k \in 1..Len(emailPool)
  /\ emailPool[k].phase = "running"
  /\ emailPool[k].i <= Len(emailPool[k].batch)
  /\ LET w == emailPool[k]
         id == w.batch[w.i]
     IN  /\ sesCalled' = [sesCalled EXCEPT ![id] = @ + 1]
         /\ CASE outcome = "accepted" ->
                   /\ emailPool' = [emailPool EXCEPT ![k] =
                        Patch(w, [i |-> w.i + 1, okIds |-> Append(w.okIds, id),
                                  okSesIds |-> Append(w.okSesIds, nextSesId)])]
                   /\ nextSesId' = nextSesId + 1
                   /\ sesAccepted' = [sesAccepted EXCEPT ![id] = @ + 1]
              [] outcome \in {"noMessageId", "permanent"} ->
                   /\ emailPool' = [emailPool EXCEPT ![k] =
                        Patch(w, [i |-> w.i + 1, failedIds |-> Append(w.failedIds, id),
                                  failedErrors |->
                                    Append(w.failedErrors,
                                           IF outcome = "noMessageId"
                                             THEN "No MessageId returned from SES"
                                             ELSE "permanent error")])]
                   /\ UNCHANGED <<nextSesId, sesAccepted>>
              [] OTHER ->
                   /\ emailPool' = [emailPool EXCEPT ![k] = AfterThrow(w)]
                   /\ UNCHANGED <<nextSesId, sesAccepted>>
  /\ UNCHANGED <<now, emails, nextId, lastOptions, nextBatchRun, scheduled,
                 deliveryEvents, callbackPool, content, cleanupJobs, snsResponse, batchedIn>>

\* A handler that marks nothing.
markEmailsFailed_Nothing(tbl, ids, errorMessage) == tbl

\* markEmailsFailedHandler: the messages of ids still queued become failed.
markEmailsFailed(tbl, ids, errorMessage) ==
  [id \in DOMAIN tbl |->
     IF id \in SeqToSet(ids) /\ tbl[id].status = "queued"
       THEN Patch(tbl[id], [status |-> "failed", errorMessage |-> errorMessage,
                            finalizedAt |-> now])
       ELSE tbl[id]]

\* After the loop: markEmailsFailed for the permanent failures, then return.
WorkFinish(k) ==
  /\ k \in 1..Len(emailPool)
  /\ emailPool[k].phase = "running"
  /\ emailPool[k].i > Len(emailPool[k].batch)
  /\ emails' = IF emailPool[k].failedIds # <<>>
                 THEN markEmailsFailed(emails, emailPool[k].failedIds, "SES API errors")
                 ELSE emails
  /\ emailPool' = [emailPool EXCEPT ![k] = Patch(@, [phase |-> "success"])]
  /\ UNCHANGED <<now, nextId, lastOptions, nextBatchRun, scheduled,
                 nextSesId, sesCalled, sesAccepted, deliveryEvents, callbackPool, content, cleanupJobs, snsResponse, batchedIn>>

\* The pool cancels a unit that is not running (an operator's cancel).
PoolCancel(k) ==
  /\ k \in 1..Len(emailPool)
  /\ emailPool[k].phase = "pending"
  /\ emailPool' = [emailPool EXCEPT ![k] = Patch(@, [phase |-> "canceled"])]
  /\ UNCHANGED <<now, emails, nextId, lastOptions, nextBatchRun, scheduled,
                 nextSesId, sesCalled, sesAccepted, deliveryEvents, callbackPool, content, cleanupJobs, snsResponse, batchedIn>>

(* ---------------------------- onEmailComplete -------------------------- *)
\* A reconciler that gives every message the first MessageId returned.
CompleteSuccess_FirstSesId(tbl, okIds, okSesIds) ==
  [id \in DOMAIN tbl |->
     IF \E j \in 1..Len(okIds) : okIds[j] = id
       THEN Patch(tbl[id], [status |-> "sent", sesMessageId |-> okSesIds[1]])
       ELSE tbl[id]]

\* result.kind = "success": patch every returned id, whatever its status.
\* db.patch of a row that was deleted raises, and the transaction of the
\* handler then writes nothing.
CompleteSuccess(tbl, okIds, okSesIds) ==
  IF \E j \in 1..Len(okIds) : okIds[j] \notin DOMAIN tbl
    THEN tbl
    ELSE [id \in DOMAIN tbl |->
            IF \E j \in 1..Len(okIds) : okIds[j] = id
              THEN LET j == CHOOSE j \in 1..Len(okIds) :
                              okIds[j] = id /\ \A l \in (j + 1)..Len(okIds) : okIds[l] # id
                   IN  Patch(tbl[id], [status |-> "sent", sesMessageId |-> okSesIds[j]])
              ELSE tbl[id]]

\* A canceled completion that leaves the messages it cancels open.
CompleteCanceled_KeepsOpen(tbl, ids) ==
  [id \in DOMAIN tbl |->
     IF id \in SeqToSet(ids) /\ tbl[id].status = "queued"
       THEN Patch(tbl[id], [status |-> "cancelled",
                            errorMessage |-> "SES API batch job was cancelled"])
       ELSE tbl[id]]

\* result.kind = "canceled": the messages of the context still queued.
CompleteCanceled(tbl, ids) ==
  [id \in DOMAIN tbl |->
     IF id \in SeqToSet(ids) /\ tbl[id].status = "queued"
       THEN Patch(tbl[id], [status |-> "cancelled",
                            errorMessage |-> "SES API batch job was cancelled",
                            finalizedAt |-> now])
       ELSE tbl[id]]

onEmailComplete(k) ==
  /\ k \in 1..Len(emailPool)
  /\ emailPool[k].phase \in {"success", "failed", "canceled"}
  /\ LET w == emailPool[k]
     IN  emails' =
           CASE w.phase = "success" -> CompleteSuccess(emails, w.okIds, w.okSesIds)
             [] w.phase = "failed" ->
                  markEmailsFailed(emails, w.context, "retries exhausted")
             [] OTHER -> CompleteCanceled(emails, w.context)
  /\ emailPool' = RemoveAt(emailPool, k)
  /\ UNCHANGED <<now, nextId, lastOptions, nextBatchRun, scheduled,
                 nextSesId, sesCalled, sesAccepted, deliveryEvents, callbackPool, content, cleanupJobs, snsResponse, batchedIn>>

(* -------------------------- manual messages --------------------------- *)
\* createManualEmail: the row is queued from the start, segment Infinity
\* (here: above every segment of the clock).
ManualSegment == getSegment(FINALIZED_EPOCH)

createManualEmail ==
  /\ emails' = Insert(emails, nextId, NewEmail(ManualSegment, "queued"))
  /\ sesCalled' = Insert(sesCalled, nextId, 0)
  /\ sesAccepted' = Insert(sesAccepted, nextId, 0)
  /\ batchedIn' = Insert(batchedIn, nextId, 0)
  /\ nextId' = nextId + 1
  /\ UNCHANGED <<now, lastOptions, nextBatchRun, scheduled, emailPool, nextSesId,
                 deliveryEvents, callbackPool, content, cleanupJobs, snsResponse>>

\* updateManualEmail: a patch of status, sesMessageId and errorMessage (an
\* argument left out removes the field), finalizedAt for failed and cancelled.
updateManualEmail(id, status, sesMessageId, errorMessage) ==
  /\ id \in Ids
  /\ emails' = [emails EXCEPT ![id] =
       Patch(@, IF status \in {"failed", "cancelled"}
                  THEN [status |-> status, sesMessageId |-> sesMessageId,
                        errorMessage |-> errorMessage, finalizedAt |-> now]
                  ELSE [status |-> status, sesMessageId |-> sesMessageId,
                        errorMessage |-> errorMessage])]
  /\ UNCHANGED <<now, nextId, lastOptions, nextBatchRun, scheduled, emailPool,
                 nextSesId, sesCalled, sesAccepted, deliveryEvents, callbackPool, content, cleanupJobs, snsResponse, batchedIn>>

(* ------------------------- the event state machine --------------------- *)
EventTypes == {"Send", "Delivery", "Bounce", "Complaint", "Reject", "Open",
               "Click", "DeliveryDelay", "Rendering Failure"}

ACCEPTED_EVENT_TYPES == {"Send", "Delivery", "Bounce", "Complaint", "Reject",
                         "Open", "Click", "DeliveryDelay"}

\* An inbound payload, by what the validator looks at: its shape, its
\* eventType ("" when missing), its mail.messageId (NoSesId when mail is
\* missing) and whether the detail object of its event type is there.
Payload(shape, eventType, messageId, detail) ==
  [shape |-> shape, eventType |-> eventType, messageId |-> messageId,
   detail |-> detail]

\* A validator that does not require the mail object.
attemptToParse_NoMail(value) ==
  IF /\ value.shape = "object"
     /\ value.eventType \in EventTypes
     /\ (value.eventType = "Send" \/ value.detail)
    THEN [kind |-> "success",
          data |-> [eventType |-> value.eventType, messageId |-> value.messageId]]
    ELSE [kind |-> "error"]

\* attemptToParse(vEmailEvent, value): one member of the union must match.
attemptToParse(value) ==
  IF /\ value.shape = "object"
     /\ value.eventType \in EventTypes
     /\ value.messageId # NoSesId
     /\ (value.eventType = "Send" \/ value.detail)
    THEN [kind |-> "success",
          data |-> [eventType |-> value.eventType, messageId |-> value.messageId]]
    ELSE [kind |-> "error"]

statusRank(status) ==
  CASE status = "waiting" -> 0
    [] status = "queued" -> 1
    [] status = "sent" -> 2
    [] status = "delivery_delayed" -> 3
    [] status = "delivered" -> 4
    [] status = "bounced" -> 5
    [] status = "failed" -> 5
    [] status = "cancelled" -> 100

\* An upgrade rule without the comparison of ranks.
canUpgradeTo_AnyRank(email, next) == email.status # "cancelled"

\* An upgrade rule that also accepts a status of the same rank.
canUpgradeTo_OrEqual(email, next) ==
  IF email.status = "cancelled" THEN FALSE
  ELSE statusRank(next) >= statusRank(email.status)

canUpgradeTo(email, next) ==
  IF email.status = "cancelled" THEN FALSE
  ELSE statusRank(next) > statusRank(email.status)

NoChange == [null |-> TRUE]
Updated(row) == [null |-> FALSE, row |-> row]


\* A Complaint that does not look at the latch before it writes.
ComplaintUpdate_NoGuard(email) ==
  Updated(Patch(email,
    [complained |-> TRUE,
     finalizedAt |-> IF email.finalizedAt = FINALIZED_EPOCH
                       THEN now ELSE email.finalizedAt]))

\* A Complaint that finalizes the message again.
ComplaintUpdate_Refinalizes(email) ==
  IF email.complained THEN NoChange
  ELSE Updated(Patch(email, [complained |-> TRUE, finalizedAt |-> now]))

\* The first occurrence of a Complaint mutates, a later one does not.
ComplaintUpdate(email) ==
  IF email.complained THEN NoChange
  ELSE Updated(Patch(email,
         [complained |-> TRUE,
          finalizedAt |-> IF email.finalizedAt = FINALIZED_EPOCH
                            THEN now ELSE email.finalizedAt]))

\* A Delivery that sets the status and leaves finalizedAt.
DeliveryUpdate_NoFinalize(email) ==
  IF ~canUpgradeTo(email, "delivered") THEN NoChange
  ELSE Updated(Patch(email, [status |-> "delivered"]))

\* A Delivery that sets the status whatever the rank of the current one.
DeliveryUpdate_Unranked(email) ==
  IF email.status = "cancelled" THEN NoChange
  ELSE Updated(Patch(email, [status |-> "delivered", finalizedAt |-> now]))

DeliveryUpdate(email) ==
  IF ~canUpgradeTo(email, "delivered") THEN NoChange
  ELSE Updated(Patch(email, [status |-> "delivered", finalizedAt |-> now]))

\* A DeliveryDelay that finalizes the message when it sets the status.
DeliveryDelayUpdate_Finalizes(email) ==
  LET statusWillChange == canUpgradeTo(email, "delivery_delayed")
  IN  IF ~statusWillChange /\ email.deliveryDelayed THEN NoChange
      ELSE IF statusWillChange
        THEN Updated(Patch(email,
               [deliveryDelayed |-> TRUE, status |-> "delivery_delayed",
                finalizedAt |-> now]))
      ELSE Updated(Patch(email, [deliveryDelayed |-> TRUE]))

\* Only mutate if this is the first delay or the status changes.
DeliveryDelayUpdate(email) ==
  LET statusWillChange == canUpgradeTo(email, "delivery_delayed")
  IN  IF ~statusWillChange /\ email.deliveryDelayed THEN NoChange
      ELSE IF statusWillChange
        THEN Updated(Patch(email,
               [deliveryDelayed |-> TRUE, status |-> "delivery_delayed"]))
      ELSE Updated(Patch(email, [deliveryDelayed |-> TRUE]))

\* computeEmailUpdateFromEvent(email, event): null, or the updated row.
computeEmailUpdateFromEvent(email, event) ==
  CASE event.eventType = "Send" -> NoChange
    [] event.eventType = "Click" ->
         IF email.clicked THEN NoChange ELSE Updated(Patch(email, [clicked |-> TRUE]))
    [] event.eventType \in {"Reject", "Rendering Failure"} ->
         LET statusWillChange == canUpgradeTo(email, "failed")
         IN  IF ~statusWillChange /\ email.failed THEN NoChange
             ELSE IF statusWillChange
               THEN Updated(Patch(email,
                      [failed |-> TRUE, status |-> "failed", finalizedAt |-> now,
                       errorMessage |-> IF event.eventType = "Reject"
                                          THEN "reject.reason"
                                          ELSE "failure.errorMessage"]))
             ELSE Updated(Patch(email, [failed |-> TRUE]))
    [] event.eventType = "Delivery" -> DeliveryUpdate(email)
    [] event.eventType = "Bounce" ->
         LET statusWillChange == canUpgradeTo(email, "bounced")
         IN  IF ~statusWillChange /\ email.bounced THEN NoChange
             ELSE IF statusWillChange
               THEN Updated(Patch(email,
                      [errorMessage |-> "bounceType/bounceSubType: recipients",
                       bounced |-> TRUE, status |-> "bounced", finalizedAt |-> now]))
             ELSE Updated(Patch(email,
                      [errorMessage |-> "bounceType/bounceSubType: recipients",
                       bounced |-> TRUE]))
    [] event.eventType = "DeliveryDelay" -> DeliveryDelayUpdate(email)
    [] event.eventType = "Complaint" -> ComplaintUpdate(email)
    [] event.eventType = "Open" ->
         IF email.opened THEN NoChange ELSE Updated(Patch(email, [opened |-> TRUE]))

\* An update that clears the opened latch when a Delivery is applied.
ApplyEvent_ClearsOpened(email, event) ==
  LET updated == computeEmailUpdateFromEvent(email, event)
      row == IF updated.null THEN email ELSE updated.row
  IN  IF event.eventType = "Delivery" THEN Patch(row, [opened |-> FALSE]) ELSE row

\* "if (updated) ctx.db.replace(email._id, updated)": the row afterwards.
ApplyEvent(email, event) ==
  LET updated == computeEmailUpdateFromEvent(email, event)
  IN  IF updated.null THEN email ELSE updated.row

\* The by_sesMessageId lookup.
EmailsBySesMessageId(messageId) ==
  {id \in Ids : emails[id].sesMessageId = messageId}

\* A handler that raises when no options were ever stored.
handleEmailEventError_NeedsOptions(value) ==
  LET result == attemptToParse(value)
  IN  IF result.kind = "success"
         /\ Cardinality(EmailsBySesMessageId(result.data.messageId)) > 1
        THEN "unique() query returned more than one result"
      ELSE IF result.kind = "success" /\ lastOptions = <<>>
        THEN "No last options found -- invariant"
      ELSE NoError

\* What handleEmailEvent raises: only unique() on two rows with the id.
handleEmailEventError(value) ==
  LET result == attemptToParse(value)
  IN  IF result.kind = "success"
         /\ Cardinality(EmailsBySesMessageId(result.data.messageId)) > 1
        THEN "unique() query returned more than one result"
        ELSE NoError

\* An enqueueCallbackIfExists that does not look at the options.
CallbackConfigured_Always == TRUE

\* enqueueCallbackIfExists
CallbackConfigured == lastOptions # <<>> /\ lastOptions[1].onEmailEvent

\* The handler of handleEmailEvent.
EmailEventHandler(value) ==
  LET result == attemptToParse(value)
  IN  IF result.kind = "error" \/ handleEmailEventError(value) # NoError
        THEN UNCHANGED dbVars
      ELSE IF EmailsBySesMessageId(result.data.messageId) = {}
        THEN UNCHANGED dbVars
      ELSE
        LET event == result.data
            id == CHOOSE e \in EmailsBySesMessageId(event.messageId) : TRUE
        IN  /\ deliveryEvents' =
                 IF event.eventType \in ACCEPTED_EVENT_TYPES
                   THEN Append(deliveryEvents,
                               [emailId |-> id, sesMessageId |-> event.messageId,
                                eventType |-> event.eventType])
                   ELSE deliveryEvents
            /\ emails' = [emails EXCEPT ![id] = ApplyEvent(@, event)]
            /\ callbackPool' =
                 IF CallbackConfigured
                   THEN Append(callbackPool, [id |-> id, eventType |-> event.eventType])
                   ELSE callbackPool
            /\ UNCHANGED <<now, nextId, lastOptions, nextBatchRun, scheduled,
                           emailPool, nextSesId, sesCalled, sesAccepted,
                           content, cleanupJobs, batchedIn>>

\* The mutation called by itself.
handleEmailEvent(value) == EmailEventHandler(value) /\ UNCHANGED snsResponse

\* The payloads the model ingests: every event type for every MessageId in
\* use, and the malformed ones (null, a string, {}, no eventType, no mail,
\* an unknown eventType, no detail object).
ValidPayloads ==
  {Payload("object", t, m, TRUE) : t \in EventTypes, m \in 1..MaxManualSesId}

InvalidPayloads ==
  {Payload("null", "", NoSesId, FALSE),
   Payload("string", "", NoSesId, FALSE),
   Payload("object", "", NoSesId, FALSE),
   Payload("object", "", 1, FALSE),
   Payload("object", "Delivery", NoSesId, TRUE),
   Payload("object", "Subscription", 1, TRUE),
   Payload("object", "Bounce", 1, FALSE)}

Payloads == ValidPayloads \cup InvalidPayloads

(* ------------------------------- cleanup ------------------------------ *)
\* The rows of S in the order of an index on field key (ties by creation),
\* the first n of them.
IndexFirstBy(S, key) ==
  CHOOSE id \in S : \A o \in S :
     \/ emails[id][key] < emails[o][key]
     \/ emails[id][key] = emails[o][key] /\ id <= o

RECURSIVE TakeBy(_, _, _)
TakeBy(S, key, n) ==
  IF n = 0 \/ S = {} THEN {}
  ELSE LET f == IndexFirstBy(S, key) IN {f} \cup TakeBy(S \ {f}, key, n - 1)

\* q.lt(field, Date.now() - olderThan), written value - now < -olderThan so
\* that no intermediate result leaves the range of the integers.
OlderThan(value, olderThan) == value - now < 0 - olderThan

\* A cleanupEmail that leaves the deliveryEvents rows.
cleanupEmail_KeepsEvents(D) ==
  /\ emails' = [id \in Ids \ D |-> emails[id]]
  /\ content' = [c \in DOMAIN content \
                     ({emails[id].text : id \in D} \cup {emails[id].html : id \in D})
                   |-> content[c]]
  /\ deliveryEvents' = deliveryEvents

\* cleanupEmail for every message of D: the row, its text and html content
\* and its deliveryEvents rows are deleted.
cleanupEmail(D) ==
  /\ emails' = [id \in Ids \ D |-> emails[id]]
  /\ content' = [c \in DOMAIN content \
                     ({emails[id].text : id \in D} \cup {emails[id].html : id \in D})
                   |-> content[c]]
  /\ deliveryEvents' = SelectSeq(deliveryEvents, LAMBDA e : e.emailId \notin D)

\* A cleanupOldEmails that never schedules another run.
CleanupOld_NoNextRun(olderThan, rest) ==
  LET oldAndDone ==
        TakeBy({id \in Ids : OlderThan(emails[id].finalizedAt, olderThan)},
               "finalizedAt", CLEANUP_BATCH_SIZE)
  IN  /\ cleanupEmail(oldAndDone)
      /\ cleanupJobs' = rest
      /\ UNCHANGED <<now, nextId, lastOptions, nextBatchRun, scheduled, emailPool,
                     nextSesId, sesCalled, sesAccepted, callbackPool, snsResponse, batchedIn>>

\* The handler of cleanupOldEmails, rest being the other pending cleanup runs.
CleanupOld(olderThan, rest) ==
  LET oldAndDone ==
        TakeBy({id \in Ids : OlderThan(emails[id].finalizedAt, olderThan)},
               "finalizedAt", CLEANUP_BATCH_SIZE)
  IN  /\ cleanupEmail(oldAndDone)
      /\ cleanupJobs' =
           IF Cardinality(oldAndDone) = CLEANUP_BATCH_SIZE
             THEN Append(rest, [fn |-> "cleanupOldEmails", olderThan |-> olderThan])
             ELSE rest
      /\ UNCHANGED <<now, nextId, lastOptions, nextBatchRun, scheduled, emailPool,
                     nextSesId, sesCalled, sesAccepted, callbackPool, snsResponse, batchedIn>>

\* The handler of cleanupAbandonedEmails.
CleanupAbandoned(olderThan, rest) ==
  LET oldAndAbandoned ==
        TakeBy({id \in Ids : OlderThan(emails[id].creationTime, olderThan)},
               "creationTime", ABANDONED_BATCH_SIZE)
  IN  /\ cleanupEmail(oldAndAbandoned)
      /\ cleanupJobs' =
           IF Cardinality(oldAndAbandoned) = ABANDONED_BATCH_SIZE
             THEN Append(rest, [fn |-> "cleanupAbandonedEmails", olderThan |-> olderThan])
             ELSE rest
      /\ UNCHANGED <<now, nextId, lastOptions, nextBatchRun, scheduled, emailPool,
                     nextSesId, sesCalled, sesAccepted, callbackPool, snsResponse, batchedIn>>

cleanupOldEmails(olderThan) == CleanupOld(olderThan, cleanupJobs)

cleanupAbandonedEmails(olderThan) == CleanupAbandoned(olderThan, cleanupJobs)

\* The scheduler runs pending cleanup run k (runAfter(0, ...)).
RunCleanupJob(k) ==
  /\ k \in 1..Len(cleanupJobs)
  /\ IF cleanupJobs[k].fn = "cleanupOldEmails"
       THEN CleanupOld(cleanupJobs[k].olderThan, RemoveAt(cleanupJobs, k))
       ELSE CleanupAbandoned(cleanupJobs[k].olderThan, RemoveAt(cleanupJobs, k))

\* The olderThan arguments: none (the retention default), zero, one tick,
\* and a negative one beyond the range of the clock.
OlderThans == {FINALIZED_EMAIL_RETENTION_MS, 0, TickMs, 0 - FINALIZED_EPOCH}

(* --------------------------- the send path ----------------------------- *)
\* sendEmail, cancelEmail, the batch scheduler, the dispatch worker and the
\* completion reconciler.
Next ==
  \/ Tick
  \/ \E o \in OptionsChoices, a \in HtmlSendArgs :
       /\ nextId <= MaxEmails
       /\ now <= StartMs + SendTicks * TickMs
       /\ sendEmail(o, a)
  \/ \E id \in 1..MaxEmails : cancelEmail(id)
  \/ \E k \in 1..MaxEmails : makeBatch(k)
  \/ \E k \in 1..MaxEmails : WorkStart(k)
  \/ \E k \in 1..MaxEmails, o \in SesOutcomes : WorkSend(k, o)
  \/ \E k \in 1..MaxEmails : WorkFinish(k)
  \/ \E k \in 1..MaxEmails : PoolCancel(k)
  \/ \E k \in 1..MaxEmails : onEmailComplete(k)

Spec == Init /\ [][Next]_vars

\* The send path with time advancing, the scheduler running its jobs, and
\* the pool running its units of work and delivering their outcomes.
FairSpec ==
  /\ Spec
  /\ WF_vars(Tick)
  /\ WF_vars(\E k \in 1..MaxEmails : makeBatch(k))
  /\ WF_vars(\E k \in 1..MaxEmails : WorkStart(k))
  /\ WF_vars(\E k \in 1..MaxEmails, o \in SesOutcomes : WorkSend(k, o))
  /\ WF_vars(\E k \in 1..MaxEmails : WorkFinish(k))
  /\ WF_vars(\E k \in 1..MaxEmails : onEmailComplete(k))

(* -------------------------- the webhook path --------------------------- *)
\* Manual messages, which updateManualEmail puts in any status, with the
\* inbound events, cancelEmail, and sendEmail as what stores the options.
NextEvents ==
  \/ now < StartMs + EventTicks * TickMs /\ Tick
  \/ nextId <= MaxEventEmails /\ createManualEmail
  \/ \E id \in 1..MaxEventEmails, st \in Statuses, m \in 0..MaxManualSesId :
       updateManualEmail(id, st, m, NoError)
  \/ \E o \in OptionsChoices, a \in HtmlSendArgs :
       nextId <= MaxEventEmails /\ sendEmail(o, a)
  \/ \E id \in 1..MaxEventEmails : cancelEmail(id)
  \/ \E p \in Payloads :
       /\ Len(deliveryEvents) < MaxEvents
       /\ Len(callbackPool) < MaxEvents
       /\ handleEmailEvent(p)

SpecEvents == Init /\ [][NextEvents]_vars

(* ------------------------- the message store -------------------------- *)
\* The events the store's messages receive.
StorePayloads ==
  {Payload("object", t, m, TRUE) :
     t \in {"Delivery", "Complaint"}, m \in 1..MaxManualSesId}

\* sendEmail with every kind of request, cancelEmail, a manual update to
\* sent, inbound events and the two cleanups with the runs they schedule.
NextStore ==
  \/ now < StartMs + StoreTicks * TickMs /\ Tick
  \/ \E o \in OptionsChoices, a \in SendArgs :
       nextId <= MaxStoreEmails /\ sendEmail(o, a)
  \/ \E id \in 1..MaxStoreEmails : cancelEmail(id)
  \/ \E id \in 1..MaxStoreEmails, m \in 1..MaxManualSesId :
       updateManualEmail(id, "sent", m, NoError)
  \/ \E p \in StorePayloads :
       /\ Len(deliveryEvents) < MaxEvents
       /\ Len(callbackPool) < MaxEvents
       /\ handleEmailEvent(p)
  \/ \E ot \in OlderThans : cleanupOldEmails(ot)
  \/ \E ot \in OlderThans : cleanupAbandonedEmails(ot)
  \/ \E k \in 1..MaxStoreEmails : RunCleanupJob(k)

SpecStore == Init /\ [][NextStore]_vars

\* The store with the scheduler running the cleanup runs it holds.
FairSpecStore ==
  SpecStore /\ WF_vars(\E k \in 1..MaxStoreEmails : RunCleanupJob(k))

(* ------------------------- handleSnsNotification ----------------------- *)
\* new Response(body, { status }); a raise has status 0 and the error as body.
Response(body, status) == [status |-> status, body |-> body]

Raised(error) == [status |-> 0, body |-> error]

\* A request, by what the handler looks at: whether the body is JSON (and
\* not null), message.Type, whether message.SubscribeURL is there, whether
\* message.Message is there and is JSON, and the value it parses to.
SnsRequest(body, type, subscribeURL, message, event) ==
  [body |-> body, Type |-> type, SubscribeURL |-> subscribeURL,
   Message |-> message, event |-> event]

NoEvent == Payload("null", "", NoSesId, FALSE)

\* An endpoint that answers a notification by the validity of its event.
SnsResponseOf_ChecksEvent(req, fetchOutcome) ==
  IF req.body = "invalidJSON" THEN Response("Invalid JSON", 400)
  ELSE IF req.body = "null" THEN Raised("TypeError")
  ELSE IF req.Type = "SubscriptionConfirmation"
    THEN IF req.SubscribeURL
           THEN IF fetchOutcome = "ok"
                  THEN Response("Subscription confirmed", 200)
                  ELSE Response("Failed to confirm subscription", 500)
           ELSE Response("Missing SubscribeURL", 400)
  ELSE IF req.Type = "Notification"
    THEN IF req.Message = "missing" THEN Response("Missing Message", 400)
         ELSE IF req.Message = "invalidJSON"
           THEN Response("Invalid SES event JSON", 400)
         ELSE IF handleEmailEventError(req.event) # NoError
           THEN Raised(handleEmailEventError(req.event))
         ELSE IF attemptToParse(req.event).kind = "error"
           THEN Response("Invalid SES event", 400)
         ELSE Response("null", 200)
  ELSE IF req.Type = "UnsubscribeConfirmation"
    THEN Response("Unsubscribe confirmed", 200)
  ELSE Response("Unknown message type", 400)

\* What handleSnsNotification returns, or raises.
SnsResponseOf(req, fetchOutcome) ==
  IF req.body = "invalidJSON" THEN Response("Invalid JSON", 400)
  ELSE IF req.body = "null" THEN Raised("TypeError")   \* message.Type of null
  ELSE IF req.Type = "SubscriptionConfirmation"
    THEN IF req.SubscribeURL
           THEN IF fetchOutcome = "ok"
                  THEN Response("Subscription confirmed", 200)
                  ELSE Response("Failed to confirm subscription", 500)
           ELSE Response("Missing SubscribeURL", 400)
  ELSE IF req.Type = "Notification"
    THEN IF req.Message = "missing" THEN Response("Missing Message", 400)
         ELSE IF req.Message = "invalidJSON"
           THEN Response("Invalid SES event JSON", 400)
         ELSE IF handleEmailEventError(req.event) # NoError
           THEN Raised(handleEmailEventError(req.event))
         ELSE Response("null", 200)
  ELSE IF req.Type = "UnsubscribeConfirmation"
    THEN Response("Unsubscribe confirmed", 200)
  ELSE Response("Unknown message type", 400)

\* Whether the handler reaches runMutation(handleEmailEvent).
RunsHandleEmailEvent(req) ==
  /\ req.body = "object"
  /\ req.Type = "Notification"
  /\ req.Message = "json"

handleSnsNotification(req, fetchOutcome) ==
  /\ snsResponse' = SnsResponseOf(req, fetchOutcome)
  /\ IF RunsHandleEmailEvent(req)
       THEN EmailEventHandler(req.event)
       ELSE UNCHANGED dbVars

\* fetch(message.SubscribeURL) returns, or throws.
FetchOutcomes == {"ok", "throws"}

\* The events notifications carry: two valid ones and three malformed ones.
SnsPayloads ==
  {Payload("object", "Delivery", 1, TRUE),
   Payload("object", "Open", 1, TRUE),
   Payload("null", "", NoSesId, FALSE),
   Payload("object", "", NoSesId, FALSE),
   Payload("object", "Delivery", NoSesId, TRUE)}

SnsTypes == {"SubscriptionConfirmation", "Notification",
             "UnsubscribeConfirmation", "Unknown", ""}

\* The requests: a body that is not JSON, a null body, every Type with and
\* without SubscribeURL and without Message, a Notification whose Message
\* is not JSON, and a Notification for every event.
SnsRequests ==
  {SnsRequest("invalidJSON", "", FALSE, "missing", NoEvent),
   SnsRequest("null", "", FALSE, "missing", NoEvent),
   SnsRequest("object", "Notification", FALSE, "invalidJSON", NoEvent)}
  \cup {SnsRequest("object", t, u, "missing", NoEvent) :
          t \in SnsTypes, u \in BOOLEAN}
  \cup {SnsRequest("object", "Notification", FALSE, "json", p) : p \in SnsPayloads}

\* Manual messages with a MessageId, sendEmail as what stores the options,
\* and the SNS endpoint.
NextSns ==
  \/ nextId <= MaxSnsEmails /\ createManualEmail
  \/ \E id \in 1..MaxSnsEmails, m \in 1..MaxManualSesId :
       updateManualEmail(id, "sent", m, NoError)
  \/ \E o \in OptionsChoices, a \in HtmlSendArgs :
       nextId <= MaxSnsEmails /\ sendEmail(o, a)
  \/ \E req \in SnsRequests, f \in FetchOutcomes :
       /\ Len(deliveryEvents) < MaxEvents
       /\ Len(callbackPool) < MaxEvents
       /\ handleSnsNotification(req, f)

SpecSns == Init /\ [][NextSns]_vars

(* ------------------------- the batch scheduler ------------------------- *)
\* The scheduler reads the retry policy of the options only.
SchedOptions == {o \in OptionsChoices : ~o.onEmailEvent}

\* sendEmail, cancelEmail and makeBatch with more messages than one batch
\* holds, and a dispatch worker whose every SendEmail call is accepted.
NextSched ==
  \/ Tick
  \/ \E o \in SchedOptions, a \in HtmlSendArgs :
       /\ nextId <= MaxSchedEmails
       /\ now <= StartMs + SchedSendTicks * TickMs
       /\ sendEmail(o, a)
  \/ \E id \in 1..MaxSchedEmails : cancelEmail(id)
  \/ \E k \in 1..MaxSchedEmails : makeBatch(k)
  \/ \E k \in 1..MaxSchedEmails : WorkStart(k)
  \/ \E k \in 1..MaxSchedEmails : WorkSend(k, "accepted")
  \/ \E k \in 1..MaxSchedEmails : WorkFinish(k)
  \/ \E k \in 1..MaxSchedEmails : onEmailComplete(k)

SpecSched == Init /\ [][NextSched]_vars

\* The dispatch path of two messages with every outcome of a SendEmail call,
\* cancelEmail, a cancel of the pool, and cleanupAbandonedEmails deleting rows whatever
\* their status while their batch is in flight.
NextReconcile ==
  \/ now < StartMs + ReconcileTicks * TickMs /\ Tick
  \/ \E o \in SchedOptions, a \in HtmlSendArgs :
       /\ nextId <= MaxReconcileEmails
       /\ sendEmail(o, a)
  \/ \E id \in 1..MaxReconcileEmails : cancelEmail(id)
  \/ \E k \in 1..MaxReconcileEmails : makeBatch(k)
  \/ \E k \in 1..MaxReconcileEmails : WorkStart(k)
  \/ \E k \in 1..MaxReconcileEmails, o \in SesOutcomes : WorkSend(k, o)
  \/ \E k \in 1..MaxReconcileEmails : WorkFinish(k)
  \/ \E k \in 1..MaxReconcileEmails : PoolCancel(k)
  \/ \E k \in 1..MaxReconcileEmails : onEmailComplete(k)
  \/ cleanupAbandonedEmails(0)
  \/ \E k \in 1..MaxReconcileEmails : RunCleanupJob(k)

SpecReconcile == Init /\ [][NextReconcile]_vars

\* The events SES sends for the MessageIds it returned.
PipelinePayloads ==
  {Payload("object", t, m, TRUE) :
     t \in EventTypes, m \in 1..MaxPipelineEmails}

\* The send path and the webhook path side by side: sendEmail, cancelEmail,
\* makeBatch, the dispatch worker and its completion, and the events of the
\* MessageIds SES has returned, ingested at any moment from then on.
NextPipeline ==
  \/ now < StartMs + PipelineTicks * TickMs /\ Tick
  \/ \E o \in SchedOptions, a \in HtmlSendArgs :
       /\ nextId <= MaxPipelineEmails
       /\ now <= StartMs + PipelineSendTicks * TickMs
       /\ sendEmail(o, a)
  \/ \E id \in 1..MaxPipelineEmails : cancelEmail(id)
  \/ \E k \in 1..MaxPipelineEmails : makeBatch(k)
  \/ \E k \in 1..MaxPipelineEmails : WorkStart(k)
  \/ \E k \in 1..MaxPipelineEmails, o \in {"accepted", "transient"} : WorkSend(k, o)
  \/ \E k \in 1..MaxPipelineEmails : WorkFinish(k)
  \/ \E k \in 1..MaxPipelineEmails : onEmailComplete(k)
  \/ \E p \in PipelinePayloads :
       /\ p.messageId < nextSesId
       /\ Len(deliveryEvents) < MaxEvents
       /\ handleEmailEvent(p)

SpecPipeline == Init /\ [][NextPipeline]_vars

\* The events of the messages sent manually: SES gives every message its
\* own MessageId, here the id of the message.
ManualPayloads ==
  {Payload("object", t, m, TRUE) :
     t \in {"Delivery", "Bounce", "Open"}, m \in 1..MaxManualEmails}

\* Ses.sendEmailManually after createManualEmail: the callback returned a
\* MessageId, or threw.
sendEmailManuallyUpdate(id, sent) ==
  /\ id \in Ids
  /\ emails[id].segment = ManualSegment
  /\ emails[id].status = "queued"
  /\ IF sent THEN updateManualEmail(id, "sent", id, NoError)
             ELSE updateManualEmail(id, "failed", NoSesId, "sendCallback error")

\* sendEmailManually and the events of its messages, next to sendEmail and
\* the makeBatch runs it schedules.
NextManual ==
  \/ now < StartMs + ManualTicks * TickMs /\ Tick
  \/ nextId <= MaxManualEmails /\ createManualEmail
  \/ \E id \in 1..MaxManualEmails, sent \in BOOLEAN : sendEmailManuallyUpdate(id, sent)
  \/ \E o \in OptionsChoices, a \in HtmlSendArgs :
       nextId <= MaxManualEmails /\ sendEmail(o, a)
  \/ \E k \in 1..MaxManualEmails : makeBatch(k)
  \/ \E p \in ManualPayloads :
       /\ Len(deliveryEvents) < MaxEvents
       /\ Len(callbackPool) < MaxEvents
       /\ handleEmailEvent(p)

SpecManual == Init /\ [][NextManual]_vars

\* The scheduler with time advancing, the jobs run and the units of work
\* run and completed.
FairSpecSched ==
  /\ SpecSched
  /\ WF_vars(Tick)
  /\ WF_vars(\E k \in 1..MaxSchedEmails : makeBatch(k))
  /\ WF_vars(\E k \in 1..MaxSchedEmails : WorkStart(k))
  /\ WF_vars(\E k \in 1..MaxSchedEmails : WorkSend(k, "accepted"))
  /\ WF_vars(\E k \in 1..MaxSchedEmails : WorkFinish(k))
  /\ WF_vars(\E k \in 1..MaxSchedEmails : onEmailComplete(k))

(* ------------------------------ the claims ----------------------------- *)
SendStep == \E o \in OptionsChoices, a \in SendArgs : sendEmail(o, a)

\* C1: at most one makeBatch job is scheduled at any time; scheduleBatchRun
\* called while the marker exists schedules no job, and a makeBatch run
\* leaves at most one successor job in place of the job it ran.
C1_AtMostOneBatchRun ==
  /\ [](Len(scheduled) <= 1)
  /\ [][/\ (nextBatchRun > 0 /\ SendStep) => scheduled' = scheduled
        /\ \A k \in 1..MaxEmails :
             makeBatch(k) => Len(scheduled') <= Len(scheduled)]_vars

\* A second message was sent while the marker existed, and a makeBatch ran,
\* enqueued a batch and scheduled its successor.
C1_Witness ==
  /\ Cardinality(Ids) >= 2
  /\ nextBatchRun = 1
  /\ emailPool # <<>>
  /\ Len(scheduled) = 1 /\ scheduled[1].reloop

\* C3: no message has more than one SendEmail call accepted by the API.
C3_SentExactlyOnce == \A id \in Ids : sesAccepted[id] <= 1

\* C5: once cancelled, a message stays cancelled under every step.
C5_CancelledSticky ==
  [][\A id \in Ids : emails[id].status = "cancelled" =>
                       emails'[id].status = "cancelled"]_vars

\* C6: cancelEmail succeeds exactly on a waiting or queued message, and
\* then sets status cancelled and finalizedAt = now and nothing else; for
\* any other status or an unknown id it raises and changes nothing.
C6_CancelContract ==
  [][\A id \in 1..MaxEmails : cancelEmail(id) =>
       IF id \in Ids /\ emails[id].status \in {"waiting", "queued"}
         THEN /\ cancelEmailError(id) = NoError
              /\ emails' = [emails EXCEPT ![id].status = "cancelled",
                                          ![id].finalizedAt = now]
              /\ UNCHANGED <<lastOptions, nextBatchRun, scheduled, emailPool,
                             deliveryEvents, callbackPool, content, cleanupJobs, snsResponse, batchedIn>>
         ELSE cancelEmailError(id) # NoError /\ UNCHANGED vars]_vars

\* A message was cancelled while queued in a batch, and finalized.
C6_Witness ==
  \E id \in Ids :
    /\ emails[id].status = "cancelled"
    /\ emails[id].finalizedAt # FINALIZED_EPOCH
    /\ \E k \in 1..Len(emailPool) : id \in SeqToSet(emailPool[k].ids)

\* C7: cancelEmail raises for every message for which the dispatch worker
\* has made a SendEmail call.
C7_NoCancelAfterSesCall ==
  \A id \in Ids : sesCalled[id] > 0 => cancelEmailError(id) # NoError

\* C8: a makeBatch run anchored at segment s selects (moves from waiting to
\* queued) only messages whose segment, the segment of their insertion time,
\* is at most s - 2.
C8_SegmentLag ==
  [][\A k \in 1..MaxEmails : makeBatch(k) =>
       \A id \in Ids :
         (emails[id].status = "waiting" /\ emails'[id].status = "queued") =>
           /\ emails[id].segment = getSegment(emails[id].creationTime)
           /\ emails[id].segment <= scheduled[k].segment - 2
           /\ scheduled[k].segment # getSegment(emails[id].creationTime)
           /\ scheduled[k].segment # getSegment(emails[id].creationTime) + 1]_vars

\* A scan selected one message and left another, inserted within the two
\* segments before its anchor, waiting.
C8_Witness ==
  \E k \in 1..Len(scheduled), id \in Ids, other \in Ids :
    /\ scheduled[k].reloop
    /\ emails[other].status = "queued"
    /\ emails[id].status = "waiting"
    /\ emails[id].segment > scheduled[k].segment - 2
    /\ emails[id].segment <= scheduled[k].segment

\* C2: every message sendEmail accepted eventually leaves waiting and
\* queued, and what it leaves them for is sent, failed or cancelled.
C2_EventuallyDispatched ==
  /\ \A id \in 1..MaxEmails :
       (id \in Ids) ~>
         (id \in Ids /\ emails[id].status \notin {"waiting", "queued"})
  /\ [][\A id \in Ids :
          (emails[id].status \in {"waiting", "queued"}
             /\ emails'[id].status \notin {"waiting", "queued"})
          => emails'[id].status \in {"sent", "failed", "cancelled"}]_vars

\* A message whose every attempt failed transiently left queued as failed.
C2_Witness ==
  \E id \in Ids :
    /\ emails[id].status = "failed"
    /\ emails[id].errorMessage = "retries exhausted"
    /\ sesCalled[id] >= MaxAttempts

\* C4: an inbound event never lowers the status rank of a message, and a
\* cancelled message stays cancelled.
C4_MonotonicStatus ==
  [][\A p \in Payloads : handleEmailEvent(p) =>
       \A id \in Ids :
         /\ statusRank(emails'[id].status) >= statusRank(emails[id].status)
         /\ emails[id].status = "cancelled" => emails'[id].status = "cancelled"]_vars

\* A Delivery arrived after a Bounce and the message is still bounced.
C4_Witness ==
  /\ Len(deliveryEvents) >= 2
  /\ deliveryEvents[1].eventType = "Bounce"
  /\ deliveryEvents[2].eventType = "Delivery"
  /\ emails[deliveryEvents[1].emailId].status = "bounced"

\* C9: for every message and every event type, once the event is applied a
\* second application of the same event is no change.
C9_SecondApplicationNoChange ==
  \A id \in Ids, t \in EventTypes :
    LET event == [eventType |-> t, messageId |-> emails[id].sesMessageId]
    IN  computeEmailUpdateFromEvent(ApplyEvent(emails[id], event), event).null

\* The same Complaint was ingested twice in succession.
C9_Witness ==
  /\ Len(deliveryEvents) >= 2
  /\ deliveryEvents[1] = deliveryEvents[2]
  /\ deliveryEvents[1].eventType = "Complaint"
  /\ emails[deliveryEvents[1].emailId].complained

\* The payloads that fail validation: null, a non-object, the empty object,
\* one without eventType, one without mail.
MalformedPayloads ==
  {Payload("null", "", NoSesId, FALSE),
   Payload("string", "", NoSesId, FALSE),
   Payload("object", "", NoSesId, FALSE),
   Payload("object", "", 1, FALSE),
   Payload("object", "Delivery", NoSesId, TRUE)}

\* C10: handleEmailEvent on a payload that fails validation does not raise
\* and changes no message, audit row or callback.
C10_MalformedDropped ==
  /\ [](\A p \in MalformedPayloads : handleEmailEventError(p) = NoError)
  /\ [][\A p \in MalformedPayloads : handleEmailEvent(p) =>
          UNCHANGED <<emails, deliveryEvents, callbackPool, content, cleanupJobs, snsResponse, batchedIn>>]_vars

\* A sent message carries the MessageId of the malformed payloads, a
\* callback is configured, and there is neither an audit row nor a callback.
C10_Witness ==
  /\ \E id \in Ids : emails[id].status = "sent" /\ emails[id].sesMessageId = 1
  /\ CallbackConfigured
  /\ deliveryEvents = <<>>
  /\ callbackPool = <<>>

\* Whether the row has body content (html or text).
HasBody(row) == row.html # NoContent \/ row.text # NoContent

\* C11: sendEmail rejects a request with both html/text and a template, one
\* with neither, and one with html/text but no subject, each with its own
\* error, and a rejected request changes no state at all; a request it
\* accepts creates one message, which has either body content (stored in
\* the content table) or a template, never both and never neither.
C11_SendEmailValidation ==
  /\ [](\A a \in SendArgs :
         LET hasContent == a.html \/ a.text
         IN  /\ (hasContent /\ a.template) =>
                   sendEmailError(a) = "Cannot provide both html/text and template"
             /\ (~hasContent /\ ~a.template) =>
                   sendEmailError(a) = "Either html/text or template must be provided"
             /\ (hasContent /\ ~a.template /\ ~a.subject) =>
                   sendEmailError(a) = "Subject is required when not using a template"
             /\ (hasContent # a.template /\ (a.template \/ a.subject)) =>
                   sendEmailError(a) = NoError)
  /\ [](\A id \in Ids : HasBody(emails[id]) # emails[id].template)
  /\ [][\A o \in OptionsChoices, a \in SendArgs : sendEmail(o, a) =>
          IF sendEmailError(a) # NoError
            THEN UNCHANGED vars
            ELSE /\ DOMAIN emails' = Ids \cup {nextId}
                 /\ nextId \notin Ids
                 /\ HasBody(emails'[nextId]) # emails'[nextId].template
                 /\ HasBody(emails'[nextId]) = (a.html \/ a.text)
                 /\ {emails'[nextId].html, emails'[nextId].text} \ {NoContent}
                      = DOMAIN content' \ DOMAIN content]_vars

\* One message with an html body and no template, one with a template and
\* no body, and the content table holds the one body.
C11_Witness ==
  /\ \E id \in Ids : emails[id].html # NoContent /\ ~emails[id].template
  /\ \E id \in Ids : ~HasBody(emails[id]) /\ emails[id].template
  /\ Cardinality(DOMAIN content) = 1

\* C14: cleanupOldEmails, whatever olderThan it is given, deletes no
\* message whose finalizedAt is the not-finalized sentinel.
C14_NeverDeletesUnfinalized ==
  [][\A ot \in OlderThans : cleanupOldEmails(ot) =>
       \A id \in Ids \ DOMAIN emails' :
         emails[id].finalizedAt # FINALIZED_EPOCH]_vars
\* C12: an attempt that finishes its loop (no transient error) marks failed,
\* finalized and with an error message, exactly the messages of its batch
\* that got a permanent error and are still queued, and changes no other
\* message; its completion sets sent, each with the MessageId the API gave
\* for it, exactly the messages the API accepted, and changes no other
\* message.  Every message of the batch the loop has passed has one of the
\* two outcomes, and no two accepted messages share a MessageId.
C12_PartialFailureContained ==
  /\ [](\A k \in 1..Len(emailPool) :
         LET w == emailPool[k]
         IN  w.phase = "running" =>
               /\ SeqToSet(w.okIds) \cap SeqToSet(w.failedIds) = {}
               /\ SeqToSet(w.okIds) \cup SeqToSet(w.failedIds)
                    = {w.batch[j] : j \in 1..(w.i - 1)}
               /\ Len(w.okSesIds) = Len(w.okIds))
  /\ [][\A k \in 1..MaxEmails : WorkFinish(k) =>
          \A id \in Ids :
            IF id \in SeqToSet(emailPool[k].failedIds) /\ emails[id].status = "queued"
              THEN /\ emails'[id].status = "failed"
                   /\ emails'[id].finalizedAt = now
                   /\ emails'[id].errorMessage # NoError
                   /\ emails'[id].sesMessageId = NoSesId
              ELSE emails'[id] = emails[id]]_vars
  /\ [][\A k \in 1..MaxEmails :
          (onEmailComplete(k) /\ emailPool[k].phase = "success") =>
            /\ \A id \in Ids :
                 IF id \in SeqToSet(emailPool[k].okIds)
                   THEN /\ emails'[id].status = "sent"
                        /\ emails'[id].sesMessageId # NoSesId
                        /\ \E j \in 1..Len(emailPool[k].okIds) :
                             /\ emailPool[k].okIds[j] = id
                             /\ emails'[id].sesMessageId = emailPool[k].okSesIds[j]
                   ELSE emails'[id] = emails[id]
            /\ \A a, b \in SeqToSet(emailPool[k].okIds) :
                 a # b => emails'[a].sesMessageId # emails'[b].sesMessageId]_vars

\* Two messages of one segment, each sent to the API once: one failed by a
\* permanent error, the other sent with a MessageId, and the batch is done.
C12_Witness ==
  /\ emailPool = <<>>
  /\ \E a, b \in Ids :
       /\ emails[a].segment = emails[b].segment
       /\ sesCalled[a] = 1 /\ sesCalled[b] = 1
       /\ emails[a].status = "failed" /\ emails[a].errorMessage = "SES API errors"
       /\ emails[b].status = "sent" /\ emails[b].sesMessageId # NoSesId
\* The SendEmail calls the running attempt of unit w has made so far, all of
\* them between w.startedAt and now.
CallsOfAttempt(w) == IF w.phase = "running" THEN w.i - 1 ELSE 0

\* C13: no attempt makes more SendEmail calls within one window of the
\* limiter than the limiter's rate.
C13_CallsWithinRate ==
  \A k \in 1..Len(emailPool) :
    getWindow(emailPool[k].startedAt) = getWindow(now) =>
      CallsOfAttempt(emailPool[k]) <= SES_RATE
\* C15: a Delivery event for a found message that is waiting, queued, sent
\* or delivery_delayed sets its status to delivered and its finalizedAt to
\* the current time, changes nothing else of it, and records one audit row
\* of type Delivery; for a message that is delivered, bounced, failed or
\* cancelled it changes no field of any message.
C15_DeliveryEvent ==
  [][\A m \in 1..MaxManualSesId :
       handleEmailEvent(Payload("object", "Delivery", m, TRUE)) =>
         \A id \in Ids :
           (EmailsBySesMessageId(m) = {id}) =>
             /\ deliveryEvents' =
                  Append(deliveryEvents,
                         [emailId |-> id, sesMessageId |-> m, eventType |-> "Delivery"])
             /\ IF emails[id].status \in {"waiting", "queued", "sent", "delivery_delayed"}
                  THEN emails' = [emails EXCEPT ![id].status = "delivered",
                                               ![id].finalizedAt = now]
                  ELSE emails' = emails]_vars

\* A sent message got a Delivery event after the clock advanced: it is
\* delivered, finalized at the current time, with one audit row.
C15_Witness ==
  /\ now > StartMs
  /\ Len(deliveryEvents) = 1
  /\ deliveryEvents[1].eventType = "Delivery"
  /\ emails[deliveryEvents[1].emailId].status = "delivered"
  /\ emails[deliveryEvents[1].emailId].finalizedAt = now

\* The events that resolve a delayed message, with the status each gives.
ResolvingEvents ==
  {<<"Delivery", "delivered">>, <<"Bounce", "bounced">>, <<"Reject", "failed">>,
   <<"Rendering Failure", "failed">>}

\* C16: a DeliveryDelay event changes the finalizedAt of no message and
\* sets the deliveryDelayed latch of the message found; applied to a sent
\* message it sets status delivery_delayed; and a message in
\* delivery_delayed moves to delivered, bounced or failed by the event of
\* that kind.
C16_DeliveryDelayNotFinal ==
  /\ [][\A m \in 1..MaxManualSesId :
          handleEmailEvent(Payload("object", "DeliveryDelay", m, TRUE)) =>
            \A id \in Ids :
              /\ emails'[id].finalizedAt = emails[id].finalizedAt
              /\ (EmailsBySesMessageId(m) = {id}) =>
                   /\ emails'[id].deliveryDelayed
                   /\ emails[id].status = "sent" =>
                        emails'[id].status = "delivery_delayed"]_vars
  /\ [](\A id \in Ids : emails[id].status = "delivery_delayed" =>
          \A r \in ResolvingEvents :
            ApplyEvent(emails[id],
                       [eventType |-> r[1], messageId |-> emails[id].sesMessageId]).status
              = r[2])

\* A message was delayed and then delivered, and only the Delivery
\* finalized it.
C16_Witness ==
  /\ Len(deliveryEvents) = 2
  /\ deliveryEvents[1].eventType = "DeliveryDelay"
  /\ deliveryEvents[2].eventType = "Delivery"
  /\ LET e == emails[deliveryEvents[1].emailId]
     IN  e.status = "delivered" /\ e.deliveryDelayed /\ e.finalizedAt = now

\* C17: for every valid event whose message is found, handleEmailEvent
\* enqueues one callback with the message id and the event when the stored
\* options have an onEmailEvent, whether or not the message changed, and
\* leaves the callback pool alone when there are no stored options or they
\* have no onEmailEvent.
C17_CallbackPerEvent ==
  [][\A p \in ValidPayloads : handleEmailEvent(p) =>
       \A id \in Ids :
         (EmailsBySesMessageId(p.messageId) = {id}) =>
           IF lastOptions # <<>> /\ lastOptions[1].onEmailEvent
             THEN callbackPool' =
                    Append(callbackPool, [id |-> id, eventType |-> p.eventType])
             ELSE callbackPool' = callbackPool]_vars

\* Two Delivery events for one message: the second changed nothing, and
\* each enqueued a callback.
C17_Witness ==
  /\ Len(callbackPool) = 2
  /\ callbackPool[1] = callbackPool[2]
  /\ callbackPool[1].eventType = "Delivery"
  /\ Len(deliveryEvents) = 2
\* The shapes the endpoint answers with success.
IsSubscription(req) ==
  req.body = "object" /\ req.Type = "SubscriptionConfirmation" /\ req.SubscribeURL

IsUnsubscribe(req) == req.body = "object" /\ req.Type = "UnsubscribeConfirmation"

\* What the endpoint does for every shape but a SubscriptionConfirmation
\* with a SubscribeURL: a Notification with a Message that is JSON is handed
\* to handleEmailEvent and answered with success, without any change when
\* its event is malformed; an UnsubscribeConfirmation is answered with
\* success and changes nothing; every other shape or malformed body gets a
\* 400 response and changes nothing.  Only a body that is JSON null, and a
\* handleEmailEvent that raises, make the endpoint raise, without a change.
SnsOtherShapes(req, f) ==
  /\ (RunsHandleEmailEvent(req) /\ handleEmailEventError(req.event) = NoError) =>
       /\ snsResponse'.status = 200
       /\ attemptToParse(req.event).kind = "error" => UNCHANGED dbVars
  /\ (RunsHandleEmailEvent(req) /\ handleEmailEventError(req.event) # NoError) =>
       snsResponse'.status = 0 /\ UNCHANGED dbVars
  /\ IsUnsubscribe(req) => snsResponse'.status = 200 /\ UNCHANGED dbVars
  /\ (~IsSubscription(req) /\ ~IsUnsubscribe(req) /\ ~RunsHandleEmailEvent(req)) =>
       /\ snsResponse'.status = IF req.body = "null" THEN 0 ELSE 400
       /\ UNCHANGED dbVars

C19_MarkerIffJob ==
  /\ nextBatchRun <= 1
  /\ Len(scheduled) <= 1
  /\ (nextBatchRun = 1) <=> (Len(scheduled) = 1)

\* The backlog drained: reschedule deleted the marker and no job is left.
C19_Witness ==
  /\ Ids # {}
  /\ nextBatchRun = 0
  /\ scheduled = <<>>
  /\ \E id \in Ids : emails[id].status = "sent"

\* C20: whenever a message is waiting, the marker exists and a makeBatch
\* job is pending; and the marker is deleted only by a step that starts, and
\* ends, with no message waiting in any segment.
C20_NoWaitingStranded ==
  /\ []((\E id \in Ids : emails[id].status = "waiting") =>
          (nextBatchRun = 1 /\ Len(scheduled) >= 1))
  /\ [][nextBatchRun' < nextBatchRun =>
          /\ \A id \in Ids : emails[id].status # "waiting"
          /\ \A id \in DOMAIN emails' : emails'[id].status # "waiting"]_vars

\* A message is still waiting after the run scheduled at its insertion, and
\* reschedule has scheduled the next run.
C20_Witness ==
  \E id \in Ids :
    /\ emails[id].status = "waiting"
    /\ nextBatchRun = 1
    /\ Len(scheduled) = 1
    /\ ~scheduled[1].reloop
    /\ scheduled[1].runAt > emails[id].creationTime + BASE_BATCH_DELAY
\* The scheduler is idle: no marker and no makeBatch job.
SchedulerIdle == nextBatchRun = 0 /\ scheduled = <<>>

\* C21: once messages are no longer inserted, an armed scheduler becomes
\* idle (the marker deleted and no makeBatch job left), and a sendEmail that
\* finds the scheduler idle creates the marker and one job.
C21_EventuallyIdle ==
  /\ (~SchedulerIdle) ~> SchedulerIdle
  /\ [][(SchedulerIdle /\ nextId' = nextId + 1 /\ SendStep) =>
          (nextBatchRun' = 1 /\ Len(scheduled') = 1 /\ ~scheduled'[1].reloop
           /\ scheduled'[1].runAt = now + BASE_BATCH_DELAY)]_vars

\* The scheduler went idle after a message was sent, and a later sendEmail
\* armed it again.
C21_Witness ==
  /\ nextBatchRun = 1
  /\ Len(scheduled) = 1
  /\ \E a, b \in Ids :
       /\ emails[a].status = "sent"
       /\ emails[b].status = "waiting"
       /\ emails[b].creationTime > emails[a].creationTime + BASE_BATCH_DELAY
       /\ scheduled[1].runAt = emails[b].creationTime + BASE_BATCH_DELAY
\* C22: a makeBatch run with n eligible messages (waiting, segment at most
\* its anchor - 2) either, when n = 0 or it is a reloop and n < BATCH_SIZE,
\* changes no message, enqueues nothing and reschedules (one first-pass job
\* after BASE_BATCH_DELAY, or the marker deleted); or it sets queued exactly
\* min(n, BATCH_SIZE) eligible messages, enqueues one batch whose argument
\* and context are those ids, and schedules one reloop job at its anchor.
C22_MakeBatchContract ==
  [][\A k \in 1..MaxSchedEmails : makeBatch(k) =>
       LET job == scheduled[k]
           eligible == {id \in Ids : emails[id].status = "waiting"
                                      /\ emails[id].segment <= job.segment - 2}
           n == Cardinality(eligible)
           selected == {id \in Ids : emails[id].status = "waiting"
                                      /\ emails'[id].status = "queued"}
       IN  IF n = 0 \/ (job.reloop /\ n < BATCH_SIZE)
             THEN /\ emails' = emails
                  /\ emailPool' = emailPool
                  /\ \/ /\ Len(scheduled') = 1 /\ ~scheduled'[1].reloop
                        /\ scheduled'[1].runAt = now + BASE_BATCH_DELAY
                        /\ nextBatchRun' = nextBatchRun
                     \/ scheduled' = <<>> /\ nextBatchRun' = 0
             ELSE /\ selected \subseteq eligible
                  /\ Cardinality(selected) = IF n < BATCH_SIZE THEN n ELSE BATCH_SIZE
                  /\ \A id \in Ids \ selected : emails'[id] = emails[id]
                  /\ \A id \in selected :
                       emails'[id] = [emails[id] EXCEPT !.status = "queued"]
                  /\ Len(emailPool') = Len(emailPool) + 1
                  /\ \A j \in 1..Len(emailPool) : emailPool'[j] = emailPool[j]
                  /\ SeqToSet(emailPool'[Len(emailPool')].ids) = selected
                  /\ emailPool'[Len(emailPool')].context = emailPool'[Len(emailPool')].ids
                  /\ Len(emailPool'[Len(emailPool')].ids) = Cardinality(selected)
                  /\ Len(scheduled') = 1
                  /\ scheduled'[1].reloop
                  /\ scheduled'[1].segment = job.segment
                  /\ nextBatchRun' = nextBatchRun]_vars

\* A full batch was enqueued although more messages were eligible, and the
\* reloop is scheduled at the same time.
C22_Witness ==
  /\ Len(scheduled) = 1 /\ scheduled[1].reloop /\ scheduled[1].runAt = now
  /\ \E k \in 1..Len(emailPool) : Len(emailPool[k].ids) = BATCH_SIZE
  /\ \E id \in Ids : /\ emails[id].status = "waiting"
                      /\ emails[id].segment <= scheduled[1].segment - 2

\* C23: no message is placed in two batches, and every message that is
\* queued, sent, delivery_delayed, delivered or bounced was placed in
\* exactly one.
C23_OneBatchPerMessage ==
  \A id \in Ids :
    /\ batchedIn[id] <= 1
    /\ emails[id].status \in {"queued", "sent", "delivery_delayed", "delivered",
                               "bounced"} => batchedIn[id] = 1
    /\ Cardinality({k \in 1..Len(emailPool) :
                      id \in SeqToSet(emailPool[k].context)}) <= batchedIn[id]

\* A second batch is in flight after a full first one was sent: every
\* message is in one batch, none in both.
C23_Witness ==
  /\ Len(emailPool) = 1
  /\ \A id \in SeqToSet(emailPool[1].context) :
       emails[id].status = "queued" /\ batchedIn[id] = 1
  /\ Cardinality({id \in Ids : /\ emails[id].status = "sent"
                                /\ batchedIn[id] = 1
                                /\ id \notin SeqToSet(emailPool[1].context)})
       = BATCH_SIZE

\* C24: a makeBatch job runs no earlier than its time and with an anchor
\* that is at most the segment of the time it runs at, first pass or
\* reloop, and every message it selects has a segment at most the segment of
\* that time minus 2: none inserted in the current or the preceding segment.
C24_LagAtRunTime ==
  /\ [](\A k \in 1..Len(scheduled) :
         scheduled[k].segment <= getSegment(scheduled[k].runAt))
  /\ [][\A k \in 1..MaxSchedEmails : makeBatch(k) =>
          /\ now >= scheduled[k].runAt
          /\ scheduled[k].segment <= getSegment(now)
          /\ \A id \in Ids :
               (emails[id].status = "waiting" /\ emails'[id].status = "queued") =>
                 /\ emails[id].segment <= getSegment(now) - 2
                 /\ getSegment(emails[id].creationTime) \notin
                      {getSegment(now), getSegment(now) - 1}]_vars

\* A message inserted at the time a makeBatch ran is waiting while a message
\* of that run is queued.
C24_Witness ==
  \E a, b \in Ids :
    /\ emails[a].status = "queued"
    /\ emails[b].status = "waiting"
    /\ emails[b].creationTime = now
    /\ Len(scheduled) = 1 /\ scheduled[1].reloop
\* The messages that got a permanent error code in the last attempt of
\* unit w.
PermanentlyFailed(w) ==
  {w.failedIds[j] : j \in {l \in 1..Len(w.failedIds) :
                             w.failedErrors[l] = "permanent error"}}

\* C25: when an attempt has aborted by raising on a transient error (the
\* unit waits for its retry, or is out of attempts), every message that got
\* a permanent error code earlier in that attempt has status failed.
C25_PermanentPersistedBeforeRaise ==
  \A k \in 1..Len(emailPool) :
    (emailPool[k].attempt >= 1 /\ emailPool[k].phase \in {"pending", "failed"}) =>
      \A id \in PermanentlyFailed(emailPool[k]) \cap Ids :
        emails[id].status \in {"failed", "cancelled"}
\* C26: a failed or canceled completion changes exactly the messages of the
\* batch context that are still queued: they get status failed (cancelled
\* for a canceled outcome), an error message and finalizedAt = now, and keep
\* every other field; every other row, and every deleted message of the
\* context, stays as it was.
C26_FailedCanceledFrame ==
  [][\A k \in 1..Len(emailPool) :
       (emailPool[k].phase \in {"failed", "canceled"}
          /\ emailPool' = RemoveAt(emailPool, k)) =>
         /\ DOMAIN emails' = DOMAIN emails
         /\ \A id \in Ids :
              IF id \in SeqToSet(emailPool[k].context) /\ emails[id].status = "queued"
                THEN /\ emails'[id].status =
                          (IF emailPool[k].phase = "failed" THEN "failed" ELSE "cancelled")
                     /\ emails'[id].errorMessage # NoError
                     /\ emails'[id].finalizedAt = now
                     /\ \A f \in DOMAIN emails[id] \ {"status", "errorMessage", "finalizedAt"} :
                          emails'[id][f] = emails[id][f]
                ELSE emails'[id] = emails[id]]_vars

\* A message cancelled by a canceled completion, next to a message of a
\* batch that was deleted.
C26_Witness ==
  /\ \E id \in Ids :
       /\ emails[id].status = "cancelled"
       /\ emails[id].errorMessage = "SES API batch job was cancelled"
       /\ emails[id].finalizedAt # FINALIZED_EPOCH
  /\ \E id \in 1..(nextId - 1) : id \notin Ids /\ batchedIn[id] = 1
  /\ emailPool = <<>>
\* C27: a success completion sets status sent and stores the i-th MessageId
\* for the i-th message id of the result, keeps every other field of those
\* rows, and changes no other row; with a null result (no id returned) it
\* changes no row at all.
C27_SuccessPairs ==
  [][\A k \in 1..Len(emailPool) :
       (emailPool[k].phase = "success" /\ emailPool' = RemoveAt(emailPool, k)) =>
         LET okIds == emailPool[k].okIds
             okSesIds == emailPool[k].okSesIds
         IN  /\ DOMAIN emails' = DOMAIN emails
             /\ \A id \in Ids :
                  /\ \A j \in 1..Len(okIds) :
                       okIds[j] = id =>
                         /\ emails'[id].status = "sent"
                         /\ emails'[id].sesMessageId = okSesIds[j]
                         /\ \A f \in DOMAIN emails[id] \ {"status", "sesMessageId"} :
                              emails'[id][f] = emails[id][f]
                  /\ id \notin SeqToSet(okIds) => emails'[id] = emails[id]]_vars
\* C28: a message's finalizedAt differs from the not-finalized sentinel
\* exactly when its status is delivered, bounced, failed or cancelled, or its
\* complained flag is set.
C28_FinalizedIffTerminal ==
  \A id \in Ids :
    (emails[id].finalizedAt # FINALIZED_EPOCH) <=>
      \/ emails[id].status \in {"delivered", "bounced", "failed", "cancelled"}
      \/ emails[id].complained
\* C29: for every valid event of every event type whose message is found,
\* handleEmailEvent appends exactly one audit row with the message id, the
\* MessageId and the event type, whether or not the message changes.
C29_AuditRowPerEvent ==
  [][\A p \in ValidPayloads : handleEmailEvent(p) =>
       \A id \in Ids :
         (EmailsBySesMessageId(p.messageId) = {id}) =>
           deliveryEvents' =
             Append(deliveryEvents,
                    [emailId |-> id, sesMessageId |-> p.messageId,
                     eventType |-> p.eventType])]_vars
\* The status an event type asks for, "" for the types that set flags only.
EventTarget(eventType) ==
  CASE eventType \in {"Reject", "Rendering Failure"} -> "failed"
    [] eventType = "Delivery" -> "delivered"
    [] eventType = "Bounce" -> "bounced"
    [] eventType = "DeliveryDelay" -> "delivery_delayed"
    [] OTHER -> ""

\* The events of the types of ts, applied to a row one after the other.
RECURSIVE ApplyEvents(_, _)
ApplyEvents(email, ts) ==
  IF ts = <<>> THEN email
  ELSE ApplyEvents(ApplyEvent(email, attemptToParse(Payload("object", Head(ts), 1, TRUE)).data),
                   Tail(ts))

StatusEventTypes == {t \in EventTypes : EventTarget(t) # ""}

EventSeqs ==
  UNION ({[1..n -> EventTypes] : n \in 0..MaxEventSeq}
           \cup {[1..n -> StatusEventTypes] : n \in 0..MaxStatusEventSeq})

\* C30: for every stored message that is not cancelled and every sequence
\* of events, the rank of the status after the events is the largest of the
\* rank before and the ranks of the statuses the events ask for, whatever
\* the order; a sent message that gets a Bounce and a Delivery, in either
\* order, ends bounced.
C30_RankIsMaximum ==
  \A id \in Ids :
    emails[id].status # "cancelled" =>
      /\ \A ts \in EventSeqs :
           LET ranks == {statusRank(emails[id].status)} \cup
                        {statusRank(EventTarget(ts[j])) :
                           j \in {l \in 1..Len(ts) : EventTarget(ts[l]) # ""}}
               final == statusRank(ApplyEvents(emails[id], ts).status)
           IN  final \in ranks /\ \A r \in ranks : final >= r
      /\ emails[id].status = "sent" =>
           /\ ApplyEvents(emails[id], <<"Bounce", "Delivery">>).status = "bounced"
           /\ ApplyEvents(emails[id], <<"Delivery", "Bounce">>).status = "bounced"

\* A message that got a Bounce and then a Delivery and is bounced.
C30_Witness ==
  /\ Len(deliveryEvents) = 2
  /\ deliveryEvents[1].eventType = "Bounce"
  /\ deliveryEvents[2].eventType = "Delivery"
  /\ deliveryEvents[1].emailId = deliveryEvents[2].emailId
  /\ deliveryEvents[1].emailId \in Ids
  /\ emails[deliveryEvents[1].emailId].status = "bounced"
  /\ emails[deliveryEvents[1].emailId].bounced
\* C31: a Bounce (a Reject or Rendering Failure) applied to a found message
\* leaves the bounced (failed) latch true; when the message is not cancelled
\* and its rank is below 5 it sets status bounced (failed), finalizedAt = now
\* and an error message, and otherwise it leaves status and finalizedAt as
\* they are.
C31_BounceAndReject ==
  [][\A p \in ValidPayloads :
       (p.eventType \in {"Bounce", "Reject", "Rendering Failure"}
          /\ handleEmailEvent(p)) =>
         \A id \in Ids :
           (EmailsBySesMessageId(p.messageId) = {id}) =>
             LET target == IF p.eventType = "Bounce" THEN "bounced" ELSE "failed"
             IN  /\ emails'[id][target]
                 /\ IF emails[id].status # "cancelled" /\ statusRank(emails[id].status) < 5
                      THEN /\ emails'[id].status = target
                           /\ emails'[id].finalizedAt = now
                           /\ emails'[id].errorMessage # NoError
                      ELSE /\ emails'[id].status = emails[id].status
                           /\ emails'[id].finalizedAt = emails[id].finalizedAt]_vars

\* A Reject made the message failed, and the Bounce that followed set the
\* bounced latch and left the status.
C31_Witness ==
  /\ Len(deliveryEvents) = 2
  /\ deliveryEvents[1].eventType = "Reject"
  /\ deliveryEvents[2].eventType = "Bounce"
  /\ deliveryEvents[1].emailId = deliveryEvents[2].emailId
  /\ deliveryEvents[1].emailId \in Ids
  /\ LET row == emails[deliveryEvents[1].emailId]
     IN  row.status = "failed" /\ row.failed /\ row.bounced
           /\ row.errorMessage = "bounceType/bounceSubType: recipients"

\* C32: the first Complaint for a found message sets the complained latch,
\* leaves the status, and sets finalizedAt to now only if it was the
\* sentinel; a Complaint for a message whose latch is set changes no field.
C32_Complaint ==
  [][\A p \in ValidPayloads :
       (p.eventType = "Complaint" /\ handleEmailEvent(p)) =>
         \A id \in Ids :
           (EmailsBySesMessageId(p.messageId) = {id}) =>
             IF emails[id].complained
               THEN emails'[id] = emails[id]
               ELSE /\ emails'[id].complained
                    /\ emails'[id].status = emails[id].status
                    /\ emails'[id].finalizedAt =
                         (IF emails[id].finalizedAt = FINALIZED_EPOCH
                            THEN now ELSE emails[id].finalizedAt)
                    /\ \A f \in DOMAIN emails[id] \ {"complained", "finalizedAt"} :
                         emails'[id][f] = emails[id][f]]_vars

\* A Complaint arrived after the message was finalized at an earlier time.
C32_Witness ==
  /\ deliveryEvents # <<>>
  /\ deliveryEvents[Len(deliveryEvents)].eventType = "Complaint"
  /\ deliveryEvents[Len(deliveryEvents)].emailId \in Ids
  /\ LET row == emails[deliveryEvents[Len(deliveryEvents)].emailId]
     IN  row.complained /\ row.status = "delivered" /\ row.finalizedAt < now
\* The flags of a message.
Latches == {"bounced", "complained", "failed", "deliveryDelayed", "opened", "clicked"}

\* C33: every flag of a message is false when the message is created and,
\* once true, stays true under every step (events, completions, cancels,
\* batch building); an Open or Click event for a found message sets its own
\* flag and changes nothing else of the row.
C33_OneWayLatches ==
  [][/\ \A id \in DOMAIN emails' \ Ids : \A f \in Latches : ~emails'[id][f]
     /\ \A id \in Ids \cap DOMAIN emails' :
          \A f \in Latches : emails[id][f] => emails'[id][f]
     /\ \A p \in PipelinePayloads :
          (p.eventType \in {"Open", "Click"} /\ handleEmailEvent(p)) =>
            \A id \in Ids :
              (EmailsBySesMessageId(p.messageId) = {id}) =>
                LET latch == IF p.eventType = "Open" THEN "opened" ELSE "clicked"
                IN  /\ emails'[id][latch]
                    /\ \A f \in DOMAIN emails[id] \ {latch} :
                         emails'[id][f] = emails[id][f]]_vars

\* An Open and then a Delivery were ingested for a message the dispatch
\* worker sent: it is delivered and still opened.
C33_Witness ==
  /\ Len(deliveryEvents) = 2
  /\ deliveryEvents[1].eventType = "Open"
  /\ deliveryEvents[2].eventType = "Delivery"
  /\ deliveryEvents[1].emailId = deliveryEvents[2].emailId
  /\ deliveryEvents[1].emailId \in Ids
  /\ LET row == emails[deliveryEvents[1].emailId]
     IN  row.opened /\ row.status = "delivered" /\ sesAccepted[deliveryEvents[1].emailId] >= 1
\* C34: when a dispatch attempt fetches its batch, a message that is not
\* queued at that moment (cancelled, for one) is left out of the attempt; a
\* SendEmail call is made only for the next message of a running attempt's
\* batch; and a cancelled message is never selected into a batch, so one
\* cancelled while waiting is in no batch and has no SendEmail call.
C34_CancelCooperative ==
  /\ [][\A k \in 1..Len(emailPool) :
          (emailPool[k].phase = "pending" /\ Len(emailPool') = Len(emailPool)
             /\ emailPool'[k].attempt = emailPool[k].attempt + 1) =>
            \A id \in SeqToSet(emailPool[k].ids) :
              (id \notin Ids \/ emails[id].status # "queued") =>
                id \notin SeqToSet(emailPool'[k].batch)]_vars
  /\ [][\A id \in Ids :
          sesCalled'[id] # sesCalled[id] =>
            \E k \in 1..Len(emailPool) :
              /\ emailPool[k].phase = "running"
              /\ emailPool[k].i <= Len(emailPool[k].batch)
              /\ emailPool[k].batch[emailPool[k].i] = id]_vars
  /\ [][\A id \in Ids :
          emails[id].status = "cancelled" =>
            /\ batchedIn'[id] = batchedIn[id]
            /\ Len(emailPool') > Len(emailPool) =>
                 id \notin SeqToSet(emailPool'[Len(emailPool')].ids)]_vars
  /\ [](\A id \in Ids : batchedIn[id] = 0 => sesCalled[id] = 0)

\* A running attempt left out a message of its unit that was cancelled
\* before the attempt fetched the batch, next to a message cancelled while
\* waiting.
C34_Witness ==
  /\ \E k \in 1..Len(emailPool), id \in Ids :
       /\ emailPool[k].phase = "running"
       /\ emailPool[k].batch # <<>>
       /\ id \in SeqToSet(emailPool[k].ids)
       /\ id \notin SeqToSet(emailPool[k].batch)
       /\ emails[id].status = "cancelled"
       /\ sesCalled[id] = 0
  /\ \E id \in Ids :
       emails[id].status = "cancelled" /\ batchedIn[id] = 0
\* C35: a Delivery event carrying the MessageId that SES returned for a
\* message that still exists is applied to that message (an audit row for it
\* is appended) at whatever moment it is ingested, before the completion
\* handler has stored the MessageId as well as after.
C35_EventFoundEitherOrder ==
  \A k \in 1..Len(emailPool) :
    \A j \in 1..Len(emailPool[k].okIds) :
      emailPool[k].okIds[j] \in Ids =>
        ENABLED (/\ handleEmailEvent(Payload("object", "Delivery",
                                             emailPool[k].okSesIds[j], TRUE))
                 /\ deliveryEvents' =
                      Append(deliveryEvents,
                             [emailId |-> emailPool[k].okIds[j],
                              sesMessageId |-> emailPool[k].okSesIds[j],
                              eventType |-> "Delivery"]))
\* C36: a message that the dispatch path gave status failed (by
\* markEmailsFailed in an attempt, or by the failed completion) had no
\* SendEmail call accepted by the API.
C36_FailedNeverAccepted ==
  \A id \in Ids :
    (emails[id].status = "failed"
       /\ emails[id].errorMessage \in {"SES API errors", "retries exhausted"}) =>
      sesAccepted[id] = 0
\* The error makeBatch raises when it runs pending job k, NoError when it
\* raises none.
makeBatchError(k) ==
  LET job == scheduled[k]
      batch == SelectBatch(job.segment)
  IN  IF lastOptions = <<>> THEN "No last options found -- invariant"
      ELSE IF ShortBatch(job, batch)
        THEN reschedule(Len(batch) > 0, RemoveAt(scheduled, k))[1]
      ELSE NoError

\* C37: no pending makeBatch job raises when it runs: the lastOptions row
\* exists, and the marker row exists when reschedule goes to delete it; the
\* lastOptions table never holds more than one row.
C37_NoInvariantError ==
  /\ Len(lastOptions) <= 1
  /\ \A k \in 1..Len(scheduled) : makeBatchError(k) = NoError

\* The last job found nothing waiting and deleted the marker: every message
\* was batched or cancelled, and the options are still stored.
C37_Witness ==
  /\ nextBatchRun = 0
  /\ scheduled = <<>>
  /\ Len(lastOptions) = 1
  /\ Cardinality(Ids) = MaxSchedEmails
  /\ \E id \in Ids : emails[id].status = "cancelled" /\ batchedIn[id] = 0
  /\ \E id \in Ids : batchedIn[id] = 1
\* C38: every audit row and every content row belongs to a stored message;
\* a step either appends one audit row, for a message that exists, and
\* keeps the rows there were, or keeps exactly the rows whose message is
\* still stored: a row is never modified and is deleted only in the step
\* that deletes its message.
C38_AuditRowsOwned ==
  /\ [](/\ \A j \in 1..Len(deliveryEvents) : deliveryEvents[j].emailId \in Ids
        /\ \A c \in DOMAIN content :
             \E id \in Ids : emails[id].html = c \/ emails[id].text = c)
  /\ [][IF Len(deliveryEvents') > Len(deliveryEvents)
          THEN /\ Len(deliveryEvents') = Len(deliveryEvents) + 1
               /\ SubSeq(deliveryEvents', 1, Len(deliveryEvents)) = deliveryEvents
               /\ deliveryEvents'[Len(deliveryEvents')].emailId \in Ids
               /\ DOMAIN emails' = DOMAIN emails
          ELSE deliveryEvents' =
                 SelectSeq(deliveryEvents, LAMBDA e : e.emailId \in DOMAIN emails')]_vars

\* A cleanup deleted a message that had an audit row and content, and a
\* message with an audit row is still stored.
C38_Witness ==
  /\ \E id \in 1..(nextId - 1) : id \notin Ids
  /\ Len(deliveryEvents) = 1
  /\ Cardinality(Ids) = 1
  /\ DOMAIN content # {}
  /\ Len(callbackPool) = 2
\* A run of retention job fn with threshold olderThan, called by a client
\* (rest is every pending run) or by the scheduler (rest is the other runs).
CleanupRun(fn, olderThan, rest) ==
  IF fn = "cleanupOldEmails"
    THEN CleanupOld(olderThan, rest) ELSE CleanupAbandoned(olderThan, rest)

C40_ManualOnly ==
  /\ [](\A id \in Ids :
         emails[id].segment = ManualSegment =>
           /\ emails[id].status # "waiting"
           /\ batchedIn[id] = 0
           /\ \A k \in 1..Len(emailPool) : id \notin SeqToSet(emailPool[k].ids)
           /\ \A p \in ManualPayloads :
                (lastOptions = <<>> /\ emails[id].sesMessageId = p.messageId) =>
                  handleEmailEventError(p) = NoError)
  /\ [][\A p \in ManualPayloads :
          (lastOptions = <<>> /\ handleEmailEvent(p)) =>
            \A id \in Ids :
              (EmailsBySesMessageId(p.messageId) = {id}) =>
                /\ emails'[id] =
                     ApplyEvent(emails[id],
                                [eventType |-> p.eventType, messageId |-> p.messageId])
                /\ (p.eventType = "Delivery" /\ emails[id].status = "sent") =>
                     (emails'[id].status = "delivered" /\ emails'[id].finalizedAt = now)
                /\ deliveryEvents' =
                     Append(deliveryEvents,
                            [emailId |-> id, sesMessageId |-> p.messageId,
                             eventType |-> p.eventType])
                /\ callbackPool' = callbackPool]_vars
  /\ [][\A k \in 1..Len(scheduled) : makeBatch(k) =>
          \A id \in Ids :
            emails[id].segment = ManualSegment => emails'[id] = emails[id]]_vars

\* With no options stored, a message sent manually got its Delivery event:
\* it is delivered, has its audit row, and no callback was enqueued.
C40_Witness ==
  /\ lastOptions = <<>>
  /\ callbackPool = <<>>
  /\ Len(deliveryEvents) = 1
  /\ deliveryEvents[1].eventType = "Delivery"
  /\ deliveryEvents[1].emailId \in Ids
  /\ LET row == emails[deliveryEvents[1].emailId]
     IN  row.status = "delivered" /\ row.segment = ManualSegment
           /\ row.sesMessageId = deliveryEvents[1].sesMessageId

====
